---- MODULE Spec2Model ----
(***************************************************************************)
(* DataLink-AI: the join engine of services/dataService.ts, the row        *)
(* sanitising of services/geminiService.ts and the handleAction pipeline   *)
(* of components/AnalysisResult.tsx.                                       *)
(*                                                                         *)
(* A JavaScript string is a sequence of one-character strings, so that     *)
(* trim, the file-name regexes, String() and JSON.stringify are computed   *)
(* character by character.  A JavaScript value is a record tagged by t:    *)
(*   [t |-> "null"], [t |-> "undef"], [t |-> "num", n |-> Nat],            *)
(*   [t |-> "str", s |-> string], [t |-> "bool", b |-> BOOLEAN],           *)
(*   [t |-> "arr", a |-> sequence of values],                              *)
(*   [t |-> "obj", o |-> sequence of <<property name, value>>]             *)
(* A plain object keeps its properties in insertion order, as a sequence   *)
(* of <<name, value>> pairs with distinct names.  A row reference is the   *)
(* index of the row in its file's data; 0 is the null placeholder.         *)
(***************************************************************************)
EXTENDS Integers, Sequences, FiniteSets, TLC

VARIABLES files, candidate, response, pc, stats, joinType, action, joinedData,
          saved, sheet, request, result,
          workspace, analysisStatus, candidates, error, pending, upload, now,
          selectedCandidateIndex, selectedJoinType, aiPlan, isPlanning, planCalls,
          insightFile, description, columnNotes, input, isTyping, chatCalls

\* the state of a handleAction call
joinVars ==
  <<files, candidate, response, pc, stats, joinType, action, joinedData, saved, sheet>>

\* the last request made to the external service and what the call returned
serviceVars == <<request, result>>

\* the state of App: the files of the workspace with their ids, the status
\* and the candidates of key discovery, the error shown, the files of the
\* analyzeFilesForJoin calls not settled yet, the upload being processed by
\* FileUpload, and the time Date.now() gives
appVars == <<workspace, analysisStatus, candidates, error, pending, upload, now>>

\* the plan editor of AnalysisResult: the selected candidate and join type,
\* the plan in the editor, and the generateMergePlan calls not settled yet
planVars == <<selectedCandidateIndex, selectedJoinType, aiPlan, isPlanning, planCalls>>

\* InsightsModal: the file it shows, its local state, and the
\* chatWithDataset calls not settled yet
chatVars == <<insightFile, description, columnNotes, input, isTyping, chatCalls>>

uiVars == <<planVars, chatVars>>

vars == <<joinVars, serviceVars, appVars, uiVars>>

-----------------------------------------------------------------------------
(* Strings *)

Alnum ==
  {"a","b","c","d","e","f","g","h","i","j","k","l","m","n","o","p","q","r","s",
   "t","u","v","w","x","y","z","A","B","C","D","E","F","G","H","I","J","K","L",
   "M","N","O","P","Q","R","<<",">>T","U","V","W","X","Y","Z","0","1","2","3","4",
   "5","6","7","8","9"}

WhiteSpace == {" ", "\t", "\n", "\r"}

DigitChars == <<"0","1","2","3","4","5","6","7","8","9">>

RECURSIVE Concat(_)
Concat(ss) == IF ss = <<>> THEN <<>> ELSE Head(ss) \o Concat(Tail(ss))

\* Array.prototype.join
RECURSIVE Join(_, _)
Join(ss, sep) ==
  IF ss = <<>> THEN <<>>
  ELSE IF Len(ss) = 1 THEN ss[1]
  ELSE ss[1] \o sep \o Join(Tail(ss), sep)

\* String.prototype.trim
RECURSIVE TrimLeft(_)
TrimLeft(s) ==
  IF s # <<>> /\ Head(s) \in WhiteSpace THEN TrimLeft(Tail(s)) ELSE s

RECURSIVE TrimRight(_)
TrimRight(s) ==
  IF s # <<>> /\ s[Len(s)] \in WhiteSpace
  THEN TrimRight(SubSeq(s, 1, Len(s) - 1)) ELSE s

Trim(s) == TrimRight(TrimLeft(s))

\* String(n) for a natural number n
RECURSIVE NumToString(_)
NumToString(n) ==
  IF n < 10 THEN <<DigitChars[n + 1]>>
  ELSE NumToString(n \div 10) \o <<DigitChars[(n % 10) + 1]>>

Max(a, b) == IF a > b THEN a ELSE b

-----------------------------------------------------------------------------
(* Values *)

Null == [t |-> "null"]
Undefined == [t |-> "undef"]
Num(n) == [t |-> "num", n |-> n]
Str(s) == [t |-> "str", s |-> s]
Bool(b) == [t |-> "bool", b |-> b]
Arr(a) == [t |-> "arr", a |-> a]
Obj(o) == [t |-> "obj", o |-> o]

\* typeof v === 'object' (null included)
TypeofObject(v) == v.t \in {"null", "arr", "obj"}

\* string, number, boolean or null: what a flat record may hold
IsScalar(v) == v.t \in {"null", "num", "str", "bool"}

\* Object.keys / property read / property write on an ordered plain object
Keys(o) == [i \in 1..Len(o) |-> o[i][1]]
Has(o, k) == \E i \in 1..Len(o) : o[i][1] = k
Get(o, k) ==
  IF Has(o, k) THEN o[CHOOSE i \in 1..Len(o) : o[i][1] = k][2] ELSE Undefined
Put(o, k, v) ==
  IF Has(o, k)
  THEN [i \in 1..Len(o) |-> IF o[i][1] = k THEN <<k, v>> ELSE o[i]]
  ELSE Append(o, <<k, v>>)

\* String(v)
RECURSIVE StringOf(_)
StringOf(v) ==
  CASE v.t = "null" -> <<"n", "u", "l", "l">>
    [] v.t = "undef" -> <<"u", "n", "d", "e", "f", "i", "n", "e", "d">>
    [] v.t = "num" -> NumToString(v.n)
    [] v.t = "str" -> v.s
    [] v.t = "bool" -> IF v.b THEN <<"t", "r", "u", "e">> ELSE <<"f", "a", "l", "s", "e">>
    [] v.t = "arr" ->
         Join([i \in 1..Len(v.a) |->
                 IF v.a[i].t \in {"null", "undef"} THEN <<>> ELSE StringOf(v.a[i])],
              <<",">>)
    [] v.t = "obj" -> <<"[", "o", "b", "j", "e", "c", "t", " ", "O", "b", "j", "e", "c", "t", "]">>

\* JSON.stringify of a string: quotes, with quote and backslash escaped
RECURSIVE JsonEscape(_)
JsonEscape(s) ==
  IF s = <<>> THEN <<>>
  ELSE (IF Head(s) \in {"\"", "\\"} THEN <<"\\", Head(s)>> ELSE <<Head(s)>>)
       \o JsonEscape(Tail(s))

JsonQuote(s) == <<"\"">> \o JsonEscape(s) \o <<"\"">>

\* JSON.stringify(v) for a value that is not undefined
RECURSIVE JsonStringify(_)
JsonStringify(v) ==
  CASE v.t = "null" -> <<"n", "u", "l", "l">>
    [] v.t = "undef" -> <<"n", "u", "l", "l">>
    [] v.t = "num" -> NumToString(v.n)
    [] v.t = "str" -> JsonQuote(v.s)
    [] v.t = "bool" -> IF v.b THEN <<"t", "r", "u", "e">> ELSE <<"f", "a", "l", "s", "e">>
    [] v.t = "arr" ->
         <<"[">> \o Join([i \in 1..Len(v.a) |-> JsonStringify(v.a[i])], <<",">>) \o <<"]">>
    [] v.t = "obj" ->
         LET props == SelectSeq(v.o, LAMBDA p : p[2].t # "undef")
         IN <<"{">> \o Join([i \in 1..Len(props) |->
                            JsonQuote(props[i][1]) \o <<":">> \o JsonStringify(props[i][2])],
                         <<",">>) \o <<"}">>

-----------------------------------------------------------------------------
(* services/dataService.ts *)

normalizeKey(val) ==
  IF val.t \in {"null", "undef"} THEN <<>> ELSE Trim(StringOf(val))

\* mutant: a file without a mapping takes the column of the first mapping
getKeyColumnForFileDefault(file, cand) ==
  LET ms == cand.columnMappings
      hit == {i \in 1..Len(ms) : ms[i].fileName = file.name}
  IN IF hit = {} THEN (IF Len(ms) = 0 THEN Undefined ELSE Str(ms[1].columnName))
     ELSE Str(ms[CHOOSE i \in hit : \A j \in hit : i <= j].columnName)

\* candidate.columnMappings.find(m => m.fileName === file.name)?.columnName
getKeyColumnForFile(file, cand) ==
  LET ms == cand.columnMappings
      hit == {i \in 1..Len(ms) : ms[i].fileName = file.name}
  IN IF hit = {} THEN Undefined
     ELSE Str(ms[CHOOSE i \in hit : \A j \in hit : i <= j].columnName)

\* !keyCol
NoKeyCol(keyCol) == keyCol.t = "undef" \/ keyCol.s = <<>>

\* a Map in insertion order: a sequence of <<key, value>> pairs
MapKeys(m) == [i \in 1..Len(m) |-> m[i][1]]
MapHas(m, k) == \E i \in 1..Len(m) : m[i][1] = k
MapGet(m, k) == m[CHOOSE i \in 1..Len(m) : m[i][1] = k][2]
MapSet(m, k, v) ==
  IF MapHas(m, k)
  THEN [i \in 1..Len(m) |-> IF m[i][1] = k THEN <<k, v>> ELSE m[i]]
  ELSE Append(m, <<k, v>>)

\* mutant: the count of a key is set to 1 instead of incremented
RECURSIVE CountRowsNoIncrement(_, _, _, _)
CountRowsNoIncrement(data, keyCol, n, counts) ==
  IF n >= Len(data) THEN counts
  ELSE LET val == normalizeKey(Get(data[n + 1], keyCol))
       IN CountRowsNoIncrement(data, keyCol, n + 1,
                               IF val # <<>> THEN MapSet(counts, val, 1) ELSE counts)

\* file.data.forEach(...) of getKeyCountsFromFile, over rows n+1..Len(data)
RECURSIVE CountRows(_, _, _, _)
CountRows(data, keyCol, n, counts) ==
  IF n >= Len(data) THEN counts
  ELSE LET val == normalizeKey(Get(data[n + 1], keyCol))
       IN CountRows(data, keyCol, n + 1,
                    IF val # <<>>
                    THEN MapSet(counts, val,
                                (IF MapHas(counts, val) THEN MapGet(counts, val) ELSE 0) + 1)
                    ELSE counts)

getKeyCountsFromFile(file, cand) ==
  LET keyCol == getKeyColumnForFile(file, cand)
  IN IF NoKeyCol(keyCol) THEN <<>> ELSE CountRows(file.data, keyCol.s, 0, <<>>)

\* allKeys: for every map in order, for every key of the map, allKeys.add(key)
RECURSIVE AddAll(_, _)
AddAll(set, keys) ==
  IF keys = <<>> THEN set
  ELSE AddAll(IF \E i \in 1..Len(set) : set[i] = Head(keys)
              THEN set ELSE Append(set, Head(keys)),
              Tail(keys))

RECURSIVE UnionKeys(_, _)
UnionKeys(maps, set) ==
  IF maps = <<>> THEN set
  ELSE UnionKeys(Tail(maps), AddAll(set, MapKeys(Head(maps))))

\* counts.reduce((acc, c) => acc * c, 1)
RECURSIVE Product(_)
Product(cs) == IF cs = <<>> THEN 1 ELSE Head(cs) * Product(Tail(cs))

\* mutant: a file without the key contributes a factor 0, as for INNER
OuterProductNoPlaceholder(cs) == Product(cs)

\* counts.reduce((acc, c) => acc * (c === 0 ? 1 : c), 1)
RECURSIVE OuterProduct(_)
OuterProduct(cs) ==
  IF cs = <<>> THEN 1
  ELSE (IF Head(cs) = 0 THEN 1 ELSE Head(cs)) * OuterProduct(Tail(cs))

ZeroStats == [INNER |-> 0, OUTER |-> 0, LEFT |-> 0, ADDITIVE |-> 0, AI_SEMANTIC |-> 0]

\* allKeys.forEach(...) of calculateJoinStats, over keys n+1..Len(allKeys)
RECURSIVE SumKeys(_, _, _, _)
SumKeys(fileKeyCounts, allKeys, n, acc) ==
  IF n >= Len(allKeys) THEN acc
  ELSE LET key == allKeys[n + 1]
           counts == [i \in 1..Len(fileKeyCounts) |->
                        IF MapHas(fileKeyCounts[i], key)
                        THEN MapGet(fileKeyCounts[i], key) ELSE 0]
           leftProduct == OuterProduct(Tail(counts))
       IN SumKeys(fileKeyCounts, allKeys, n + 1,
                  [inner |-> acc.inner + Product(counts),
                   outer |-> acc.outer + OuterProduct(counts),
                   left |-> IF counts[1] > 0
                            THEN acc.left + counts[1] * leftProduct
                            ELSE acc.left])

\* mutant: the ADDITIVE estimate is the INNER one
calculateJoinStatsAdditiveInner(fs, cand) ==
  LET fileKeyCounts == [i \in 1..Len(fs) |-> getKeyCountsFromFile(fs[i], cand)]
  IN IF Len(fileKeyCounts) = 0 THEN ZeroStats
     ELSE LET c == SumKeys(fileKeyCounts, UnionKeys(fileKeyCounts, <<>>), 0,
                            [inner |-> 0, outer |-> 0, left |-> 0])
          IN [INNER |-> c.inner, OUTER |-> c.outer, LEFT |-> c.left,
              ADDITIVE |-> c.inner, AI_SEMANTIC |-> 0]

calculateJoinStats(fs, cand) ==
  LET fileKeyCounts == [i \in 1..Len(fs) |-> getKeyCountsFromFile(fs[i], cand)]
  IN IF Len(fileKeyCounts) = 0 THEN ZeroStats
     ELSE LET c == SumKeys(fileKeyCounts, UnionKeys(fileKeyCounts, <<>>), 0,
                            [inner |-> 0, outer |-> 0, left |-> 0])
          IN [INNER |-> c.inner, OUTER |-> c.outer, LEFT |-> c.left,
              ADDITIVE |-> c.outer, AI_SEMANTIC |-> 0]


\* mutant: the blank key is grouped like any other key
RECURSIVE GroupRowsKeepBlank(_, _, _, _)
GroupRowsKeepBlank(data, keyCol, n, map) ==
  IF n >= Len(data) THEN map
  ELSE LET val == normalizeKey(Get(data[n + 1], keyCol))
       IN GroupRowsKeepBlank(data, keyCol, n + 1,
                             MapSet(map, val,
                                    Append(IF MapHas(map, val) THEN MapGet(map, val)
                                           ELSE <<>>,
                                           n + 1)))

\* file.data.forEach(...) of joinDatasets step 1, over rows n+1..Len(data):
\* the map holds, per key, the references of the rows in row order
RECURSIVE GroupRows(_, _, _, _)
GroupRows(data, keyCol, n, map) ==
  IF n >= Len(data) THEN map
  ELSE LET val == normalizeKey(Get(data[n + 1], keyCol))
       IN GroupRows(data, keyCol, n + 1,
                    IF val # <<>>
                    THEN MapSet(map, val,
                                Append(IF MapHas(map, val) THEN MapGet(map, val) ELSE <<>>,
                                       n + 1))
                    ELSE map)

fileDataMap(file, cand) ==
  LET keyCol == getKeyColumnForFile(file, cand)
  IN IF NoKeyCol(keyCol) THEN <<>> ELSE GroupRows(file.data, keyCol.s, 0, <<>>)

\* mutant: the loops are nested the other way round, curr outermost
FlatMapCurrOuter(acc, curr) ==
  Concat([j \in 1..Len(curr) |-> [i \in 1..Len(acc) |-> Append(acc[i], curr[j])]])

\* acc.flatMap(a => curr.map(c => [...a, c]))
FlatMap(acc, curr) ==
  Concat([i \in 1..Len(acc) |-> [j \in 1..Len(curr) |-> Append(acc[i], curr[j])]])

\* arrays.reduce(..., [[]])
RECURSIVE Reduce(_, _)
Reduce(arrays, acc) ==
  IF arrays = <<>> THEN acc ELSE Reduce(Tail(arrays), FlatMap(acc, Head(arrays)))

cartesian(arrays) == Reduce(arrays, << <<>> >>)

\* the row groups of one key, a single null placeholder where a file has none
rowsPerFile(fileDataMaps, key) ==
  [i \in 1..Len(fileDataMaps) |->
     IF MapHas(fileDataMaps[i], key) /\ Len(MapGet(fileDataMaps[i], key)) > 0
     THEN MapGet(fileDataMaps[i], key) ELSE <<0>>]

\* mutant: LEFT tests the last file instead of the first
SkipKeyLeftTestsLast(joinT, hasDataInFile) ==
  \/ joinT = "INNER" /\ \E i \in 1..Len(hasDataInFile) : ~hasDataInFile[i]
  \/ joinT = "LEFT" /\ (Len(hasDataInFile) = 0 \/ ~hasDataInFile[Len(hasDataInFile)])

\* the join type filter of one key: TRUE when the key is skipped
SkipKey(joinT, hasDataInFile) ==
  \/ joinT = "INNER" /\ \E i \in 1..Len(hasDataInFile) : ~hasDataInFile[i]
  \/ joinT = "LEFT" /\ (Len(hasDataInFile) = 0 \/ ~hasDataInFile[1])

\* the combinations of one key, in the order they are expanded
keyCombinations(fileDataMaps, key, joinT) ==
  LET rpf == rowsPerFile(fileDataMaps, key)
      hasDataInFile == [i \in 1..Len(rpf) |-> rpf[i][1] # 0]
  IN IF SkipKey(joinT, hasDataInFile) THEN <<>>
     ELSE LET combinations == cartesian(rpf)
          IN [c \in 1..Len(combinations) |-> [key |-> key, combo |-> combinations[c]]]

\* allKeys.forEach(...) of joinDatasets: every combination a record is built from
joinCombinations(fs, cand, joinT) ==
  LET fileDataMaps == [i \in 1..Len(fs) |-> fileDataMap(fs[i], cand)]
      allKeys == UnionKeys(fileDataMaps, <<>>)
  IN Concat([k \in 1..Len(allKeys) |-> keyCombinations(fileDataMaps, allKeys[k], joinT)])

\* name.replace(/\.[^/.]+$/, "")
StripExtension(name) ==
  LET dots == {i \in 1..Len(name) :
                 /\ name[i] = "."
                 /\ i < Len(name)
                 /\ \A j \in (i + 1)..Len(name) : name[j] \notin {"/", "."}}
  IN IF dots = {} THEN name ELSE SubSeq(name, 1, (CHOOSE i \in dots : TRUE) - 1)

\* name.replace(/\.[^/.]+$/, "").replace(/[^a-zA-Z0-9]/g, "_")
cleanFileName(name) ==
  LET base == StripExtension(name)
  IN [i \in 1..Len(base) |-> IF base[i] \in Alnum THEN base[i] ELSE "_"]

newColName(name, col) == cleanFileName(name) \o <<" ", "-", " ">> \o col

\* Object.entries(row).forEach(...): the columns of one row, entries n+1.. on
RECURSIVE AddColumns(_, _, _, _, _)
AddColumns(joinedRow, name, keyCol, row, n) ==
  IF n >= Len(row) THEN joinedRow
  ELSE LET col == row[n + 1][1]
           val == row[n + 1][2]
       IN AddColumns(IF keyCol.t = "str" /\ col = keyCol.s THEN joinedRow
                     ELSE Put(joinedRow, newColName(name, col), val),
                     name, keyCol, row, n + 1)

\* combo.forEach(...): the rows of the combination, positions n+1.. on
RECURSIVE AddFiles(_, _, _, _, _)
AddFiles(joinedRow, fs, cand, combo, n) ==
  IF n >= Len(combo) THEN joinedRow
  ELSE AddFiles(IF combo[n + 1] # 0
                THEN AddColumns(joinedRow, fs[n + 1].name,
                                getKeyColumnForFile(fs[n + 1], cand),
                                fs[n + 1].data[combo[n + 1]], 0)
                ELSE joinedRow,
                fs, cand, combo, n + 1)

foundInFiles(fs, combo) ==
  LET found == SelectSeq([i \in 1..Len(combo) |-> i], LAMBDA i : combo[i] # 0)
  IN [i \in 1..Len(found) |-> fs[found[i]].name]

missingInFiles(fs, combo) ==
  LET missing == SelectSeq([i \in 1..Len(combo) |-> i], LAMBDA i : combo[i] = 0)
  IN [i \in 1..Len(missing) |-> fs[missing[i]].name]

\* mutant: "Unique to" names the first file that misses the key
joinStatusNamesMissing(fs, combo) ==
  IF Len(missingInFiles(fs, combo)) = 0 THEN <<"M", "a", "t", "c", "h", "e", "d", " ", "(", "A", "l", "l", " ", "F", "i", "l", "e", "s", ")">>
  ELSE IF Len(foundInFiles(fs, combo)) = 1
       THEN <<"U", "n", "i", "q", "u", "e", " ", "t", "o", " ">> \o missingInFiles(fs, combo)[1]
       ELSE <<"P", "a", "r", "t", "i", "a", "l", " ", "M", "a", "t", "c", "h", " ", "(", "F", "o", "u", "n", "d", " ", "i", "n", " ">> \o NumToString(Len(foundInFiles(fs, combo)))
            \o <<"/">> \o NumToString(Len(fs)) \o <<")">>

\* mutant: a partial match is counted against the files found
joinStatusOfFound(fs, combo) ==
  IF Len(missingInFiles(fs, combo)) = 0 THEN <<"M", "a", "t", "c", "h", "e", "d", " ", "(", "A", "l", "l", " ", "F", "i", "l", "e", "s", ")">>
  ELSE IF Len(foundInFiles(fs, combo)) = 1
       THEN <<"U", "n", "i", "q", "u", "e", " ", "t", "o", " ">> \o foundInFiles(fs, combo)[1]
       ELSE <<"P", "a", "r", "t", "i", "a", "l", " ", "M", "a", "t", "c", "h", " ", "(", "F", "o", "u", "n", "d", " ", "i", "n", " ">> \o NumToString(Len(foundInFiles(fs, combo)))
            \o <<"/">> \o NumToString(Len(foundInFiles(fs, combo))) \o <<")">>

joinStatus(fs, combo) ==
  IF Len(missingInFiles(fs, combo)) = 0 THEN <<"M", "a", "t", "c", "h", "e", "d", " ", "(", "A", "l", "l", " ", "F", "i", "l", "e", "s", ")">>
  ELSE IF Len(foundInFiles(fs, combo)) = 1
       THEN <<"U", "n", "i", "q", "u", "e", " ", "t", "o", " ">> \o foundInFiles(fs, combo)[1]
       ELSE <<"P", "a", "r", "t", "i", "a", "l", " ", "M", "a", "t", "c", "h", " ", "(", "F", "o", "u", "n", "d", " ", "i", "n", " ">> \o NumToString(Len(foundInFiles(fs, combo)))
            \o <<"/">> \o NumToString(Len(fs)) \o <<")">>

\* files.forEach(f => joinedRow[`_Found_In_${cleanName}`] = ...), files n+1.. on
RECURSIVE AddFoundIn(_, _, _, _)
AddFoundIn(joinedRow, fs, combo, n) ==
  IF n >= Len(fs) THEN joinedRow
  ELSE AddFoundIn(Put(joinedRow, <<"_", "F", "o", "u", "n", "d", "_", "I", "n", "_">> \o cleanFileName(fs[n + 1].name),
                      IF \E i \in 1..Len(foundInFiles(fs, combo)) :
                           foundInFiles(fs, combo)[i] = fs[n + 1].name
                      THEN Str(<<"T", "R", "U", "E">>) ELSE Str(<<"F", "A", "L", "S", "E">>)),
                  fs, combo, n + 1)

\* combinations.forEach(combo => ...): the record of one combination
joinedRow(fs, cand, joinT, key, combo) ==
  LET cols == AddFiles(<< <<cand.keyName, Str(key)>> >>, fs, cand, combo, 0)
  IN IF joinT = "ADDITIVE"
     THEN AddFoundIn(Put(cols, <<"_", "J", "o", "i", "n", "_", "S", "t", "a", "t", "u", "s">>, Str(joinStatus(fs, combo))), fs, combo, 0)
     ELSE cols

joinDatasets(fs, cand, joinT) ==
  LET combinations == joinCombinations(fs, cand, joinT)
  IN [c \in 1..Len(combinations) |->
        joinedRow(fs, cand, joinT, combinations[c].key, combinations[c].combo)]


\* mutant: the elements are joined with ", "
flattenArrayComma(a) ==
  Join([i \in 1..Len(a) |->
          IF TypeofObject(a[i]) THEN JsonStringify(a[i]) ELSE StringOf(a[i])],
       <<",", " ">>)

\* val.map(v => typeof v === 'object' ? JSON.stringify(v) : String(v)).join(' | ')
flattenArray(a) ==
  Join([i \in 1..Len(a) |->
          IF TypeofObject(a[i]) THEN JsonStringify(a[i]) ELSE StringOf(a[i])],
       <<" ", "|", " ">>)

\* mutant: arrays are flattened, other objects are passed through
sanitizeCellArraysOnly(val) ==
  IF val.t \in {"null", "undef"} THEN Null
  ELSE IF val.t = "arr" THEN Str(flattenArray(val.a))
  ELSE val

\* the cell rule of createJoinedFile
sanitizeCell(val) ==
  IF val.t \in {"null", "undef"} THEN Null
  ELSE IF TypeofObject(val)
       THEN IF val.t = "arr" THEN Str(flattenArray(val.a)) ELSE Str(JsonStringify(val))
       ELSE val

\* the cell rule of downloadCSV
flatCell(val) ==
  IF val.t \in {"null", "undef"} THEN Str(<<>>)
  ELSE IF TypeofObject(val)
       THEN IF val.t = "arr" THEN Str(flattenArray(val.a)) ELSE Str(JsonStringify(val))
       ELSE val

sanitizeRow(row) == [i \in 1..Len(row) |-> <<row[i][1], sanitizeCell(row[i][2])>>]

flatRow(row) == [i \in 1..Len(row) |-> <<row[i][1], flatCell(row[i][2])>>]

\* data.slice(0, n)
Slice(data, n) == SubSeq(data, 1, IF Len(data) < n THEN Len(data) ELSE n)

PreviewRows == 10

\* the keys of all rows, in the order they are first met
RECURSIVE AllKeysOf(_, _)
AllKeysOf(rows, acc) ==
  IF rows = <<>> THEN acc ELSE AllKeysOf(Tail(rows), AddAll(acc, Keys(Head(rows))))

\* mutant: the headers are the columns of all records
createJoinedFileAllHeaders(data, name) ==
  LET sanitizedData == [i \in 1..Len(data) |-> sanitizeRow(data[i])]
  IN [name |-> name,
      headers |-> AllKeysOf(sanitizedData, <<>>),
      previewData |-> Slice(sanitizedData, PreviewRows),
      data |-> sanitizedData,
      rowCount |-> Len(sanitizedData),
      isJoined |-> TRUE]

createJoinedFile(data, name) ==
  LET sanitizedData == [i \in 1..Len(data) |-> sanitizeRow(data[i])]
  IN [name |-> name,
      headers |-> IF Len(sanitizedData) > 0 THEN Keys(sanitizedData[1]) ELSE <<>>,
      previewData |-> Slice(sanitizedData, PreviewRows),
      data |-> sanitizedData,
      rowCount |-> Len(sanitizedData),
      isJoined |-> TRUE]

\* the rows downloadCSV hands to XLSX.utils.json_to_sheet
downloadCSV(data) == [i \in 1..Len(data) |-> flatRow(data[i])]

-----------------------------------------------------------------------------
(* components/FilePreviewModal.tsx *)

TableRows == 1000

\* String(row[header] ?? '')
cellText(val) == IF val.t \in {"null", "undef"} THEN <<>> ELSE StringOf(val)

\* the table of the modal with an empty search term: one line per row of
\* file.data, one cell per header
previewTable(file) ==
  LET filteredData == Slice(file.data, TableRows)
  IN [r \in 1..Len(filteredData) |->
        [h \in 1..Len(file.headers) |-> cellText(Get(filteredData[r], file.headers[h]))]]

-----------------------------------------------------------------------------
(* services/geminiService.ts: what generateSemanticMerge does with the answer *)

\* the property list of a parsed JSON value read as an object (Object.keys)
EntriesOf(v) ==
  IF v.t = "obj" THEN v.o
  ELSE IF v.t = "arr" THEN [i \in 1..Len(v.a) |-> <<NumToString(i - 1), v.a[i]>>]
  ELSE <<>>

\* the cell rule of generateSemanticMerge
cleanCell(val) ==
  IF val.t \in {"null", "undef"} THEN Null
  ELSE IF val.t = "arr" THEN Str(flattenArray(val.a))
  ELSE IF TypeofObject(val) THEN Str(JsonStringify(val))
  ELSE val

cleanRow(row) ==
  IF ~TypeofObject(row) \/ row.t = "null" THEN <<>>
  ELSE LET es == EntriesOf(row)
       IN [i \in 1..Len(es) |-> <<es[i][1], cleanCell(es[i][2])>>]

\* The answer of the external service is one of
\*   [kind |-> "nokey"]   process.env.API_KEY is not set: no request is made
\*   [kind |-> "reject"]  the request failed
\*   [kind |-> "empty"]   response.text is empty
\*   [kind |-> "notjson", text |-> s] response.text is s, JSON.parse throws
\*   [kind |-> "json", value |-> v]  response.text is the JSON text of v
\* generateSemanticMerge returns [ok |-> FALSE] when it throws.
generateSemanticMerge(resp) ==
  CASE resp.kind \in {"nokey", "reject"} -> [ok |-> FALSE, rows |-> <<>>]
    [] resp.kind = "empty" -> [ok |-> TRUE, rows |-> <<>>]
    [] resp.kind = "notjson" -> [ok |-> TRUE, rows |-> <<>>]
    [] resp.kind = "json" ->
         IF resp.value.t = "arr"
         THEN [ok |-> TRUE,
               rows |-> [i \in 1..Len(resp.value.a) |-> cleanRow(resp.value.a[i])]]
         ELSE [ok |-> TRUE, rows |-> <<>>]

-----------------------------------------------------------------------------
(* components/AnalysisResult.tsx *)

\* keyName.replace(/\s+/g, '_')
RECURSIVE ReplaceSpaces(_)
ReplaceSpaces(s) ==
  IF s = <<>> THEN <<>>
  ELSE IF Head(s) \in WhiteSpace
       THEN <<"_">> \o ReplaceSpaces(TrimLeft(s))
       ELSE <<Head(s)>> \o ReplaceSpaces(Tail(s))

fileNamePrefix(joinT) ==
  CASE joinT = "AI_SEMANTIC" -> <<"a", "i", "_", "s", "e", "m", "a", "n", "t", "i", "c", "_", "m", "e", "r", "g", "e">>
    [] joinT = "INNER" -> <<"m", "e", "r", "g", "e", "d", "_", "i", "n", "n", "e", "r">>
    [] joinT = "LEFT" -> <<"m", "e", "r", "g", "e", "d", "_", "l", "e", "f", "t">>
    [] joinT = "ADDITIVE" -> <<"m", "e", "r", "g", "e", "d", "_", "a", "d", "d", "i", "t", "i", "v", "e">>
    [] OTHER -> <<"m", "e", "r", "g", "e", "d", "_", "f", "u", "l", "l">>

fileName(joinT, cand) == fileNamePrefix(joinT) \o <<"_">> \o ReplaceSpaces(cand.keyName)


JoinTypes == {"INNER", "OUTER", "LEFT", "ADDITIVE", "AI_SEMANTIC"}

EngineTypes == {"INNER", "OUTER", "LEFT", "ADDITIVE"}

\* a ParsedFile: the fields the engine and the services read
\* as processFile builds it, previewData being rawData.slice(0, 10)
ParsedFile(name, headers, data) ==
  [name |-> name, headers |-> headers, previewData |-> Slice(data, PreviewRows),
   data |-> data, rowCount |-> Len(data)]

Mapping(name, col) == [fileName |-> name, columnName |-> col]

JoinCandidate(keyName, mappings) == [keyName |-> keyName, columnMappings |-> mappings]

NoResponse == [kind |-> "reject"]

-----------------------------------------------------------------------------
(* services/geminiService.ts: the requests and the four service functions *)

SummaryRows == 3

MergeRows == 50

HistoryWindow == 10

\* file.headers.forEach(header => simplifiedRow[header] = row[header])
RECURSIVE simplifiedRow(_, _, _)
simplifiedRow(o, headers, row) ==
  IF headers = <<>> THEN o
  ELSE simplifiedRow(Put(o, Head(headers), Get(row, Head(headers))), Tail(headers), row)

\* mutant: the whole preview is sampled
prepareFileSummaryAllPreview(file) ==
  [fileName |-> file.name,
   headers |-> file.headers,
   sampleData |-> [r \in 1..Len(file.previewData) |->
                     simplifiedRow(<<>>, file.headers, file.previewData[r])]]

prepareFileSummary(file) ==
  [fileName |-> file.name,
   headers |-> file.headers,
   sampleData |-> [r \in 1..Len(Slice(file.previewData, SummaryRows)) |->
                     simplifiedRow(<<>>, file.headers, file.previewData[r])]]

\* the properties of an object that JSON.stringify writes
JsonProps(o) == SelectSeq(o, LAMBDA p : p[2].t # "undef")

\* JSON.stringify(fileSummaries)
summariesJson(fs) ==
  [i \in 1..Len(fs) |->
     LET summary == prepareFileSummary(fs[i])
     IN [summary EXCEPT !.sampleData = [r \in 1..Len(@) |-> JsonProps(@[r])]]]

\* files.map(f => ({fileName: f.name, data: f.data.slice(0, 50)})), as JSON
samples(fs) ==
  [i \in 1..Len(fs) |->
     [fileName |-> fs[i].name,
      data |-> [r \in 1..Len(Slice(fs[i].data, MergeRows)) |-> JsonProps(fs[i].data[r])]]]

NoRequest == [none |-> TRUE]

\* the prompt of analyzeFilesForJoin: what is interpolated into it
analyzeRequest(fs) ==
  [service |-> "analyzeFilesForJoin", count |-> Len(fs), summaries |-> summariesJson(fs)]

planRequest(fs, cand) ==
  [service |-> "generateMergePlan", count |-> Len(fs), keyName |-> cand.keyName,
   summaries |-> summariesJson(fs)]

\* userInstructions || the default instructions, which name candidate.keyName
mergeRequest(fs, cand, userInstructions) ==
  [service |-> "generateSemanticMerge", count |-> Len(fs),
   instructions |-> IF userInstructions # <<>>
                    THEN [plan |-> userInstructions]
                    ELSE [keyName |-> cand.keyName],
   samples |-> samples(fs)]

\* file.aiContext || { chatHistory: [] }
contextOf(file) ==
  IF "aiContext" \in DOMAIN file THEN file.aiContext ELSE [chatHistory |-> <<>>]

\* context.chatHistory.slice(-10)
recentHistory(history) ==
  SubSeq(history, Max(1, Len(history) - HistoryWindow + 1), Len(history))

chatRequest(file, userMessage) ==
  LET context == contextOf(file)
  IN [service |-> "chatWithDataset",
      name |-> file.name,
      headers |-> file.headers,
      rowCount |-> file.rowCount,
      summaries |-> summariesJson(<<file>>),
      description |-> IF "userDescription" \in DOMAIN context
                         /\ context.userDescription # <<>>
                      THEN context.userDescription ELSE <<"N", "o", "n", "e", " ", "p", "r", "o", "v", "i", "d", "e", "d">>,
      columnMeanings |-> IF "columnMeanings" \in DOMAIN context
                         THEN context.columnMeanings ELSE <<>>,
      history |-> recentHistory(context.chatHistory),
      message |-> userMessage]

\* the request a call makes: none without an API key
sent(resp, req) == IF resp.kind = "nokey" THEN NoRequest ELSE req

\* response.text
responseText(resp) ==
  CASE resp.kind = "empty" -> <<>>
    [] resp.kind = "notjson" -> resp.text
    [] resp.kind = "json" -> JsonStringify(resp.value)

\* a call returns [ok |-> TRUE, value |-> v], or [ok |-> FALSE] when the
\* promise is rejected
Resolved(v) == [ok |-> TRUE, value |-> v]

Rejected == [ok |-> FALSE, value |-> Undefined]

\* JSON.parse(response.text).candidates
analyzeFilesForJoin(resp) ==
  CASE resp.kind \in {"nokey", "reject", "empty", "notjson"} -> Rejected
    [] resp.kind = "json" ->
         IF resp.value.t = "null" THEN Rejected
         ELSE IF resp.value.t = "obj" THEN Resolved(Get(resp.value.o, <<"c", "a", "n", "d", "i", "d", "a", "t", "e", "s">>))
         ELSE Resolved(Undefined)

\* mutant: the error of a failed request is thrown again
generateMergePlanRethrows(resp) ==
  IF resp.kind \in {"nokey", "reject"} THEN Rejected
  ELSE Resolved(Str(IF responseText(resp) # <<>> THEN responseText(resp)
                    ELSE <<"C", "o", "u", "l", "d", " ", "n", "o", "t", " ", "g", "e", "n", "e", "r", "a", "t", "e", " ", "p", "l", "a", "n", ".">>))

generateMergePlan(resp) ==
  IF resp.kind \in {"nokey", "reject"}
  THEN Resolved(Str(<<"E", "r", "r", "o", "r", " ", "g", "e", "n", "e", "r", "a", "t", "i", "n", "g", " ", "p", "l", "a", "n", ".", " ", "P", "l", "e", "a", "s", "e", " ", "w", "r", "i", "t", "e", " ", "y", "o", "u", "r", " ", "i", "n", "s", "t", "r", "u", "c", "t", "i", "o", "n", "s", " ", "m", "a", "n", "u", "a", "l", "l", "y", ".">>))
  ELSE Resolved(Str(IF responseText(resp) # <<>> THEN responseText(resp)
                    ELSE <<"C", "o", "u", "l", "d", " ", "n", "o", "t", " ", "g", "e", "n", "e", "r", "a", "t", "e", " ", "p", "l", "a", "n", ".">>))

chatWithDataset(resp) ==
  IF resp.kind \in {"nokey", "reject"}
  THEN Resolved(Str(<<"S", "o", "r", "r", "y", ",", " ", "I", " ", "e", "n", "c", "o", "u", "n", "t", "e", "r", "e", "d", " ", "a", "n", " ", "e", "r", "r", "o", "r", " ", "w", "h", "i", "l", "e", " ", "a", "n", "a", "l", "y", "z", "i", "n", "g", " ", "t", "h", "e", " ", "d", "a", "t", "a", ".">>))
  ELSE Resolved(Str(IF responseText(resp) # <<>> THEN responseText(resp)
                    ELSE <<"I", " ", "c", "o", "u", "l", "d", "n", "'", "t", " ", "g", "e", "n", "e", "r", "a", "t", "e", " ", "a", " ", "r", "e", "s", "p", "o", "n", "s", "e", ".">>))

\* a JoinCandidate as a JSON value, and back
candidateValue(cand) ==
  Obj(<< <<<<"k", "e", "y", "N", "a", "m", "e">>, Str(cand.keyName)>>,
         <<<<"c", "o", "l", "u", "m", "n", "M", "a", "p", "p", "i", "n", "g", "s">>,
           Arr([i \in 1..Len(cand.columnMappings) |->
                  Obj(<< <<<<"f", "i", "l", "e", "N", "a", "m", "e">>, Str(cand.columnMappings[i].fileName)>>,
                         <<<<"c", "o", "l", "u", "m", "n", "N", "a", "m", "e">>, Str(cand.columnMappings[i].columnName)>> >>)])>> >>)

asCandidate(v) ==
  JoinCandidate(Get(v.o, <<"k", "e", "y", "N", "a", "m", "e">>).s,
                [i \in 1..Len(Get(v.o, <<"c", "o", "l", "u", "m", "n", "M", "a", "p", "p", "i", "n", "g", "s">>).a) |->
                   Mapping(Get(Get(v.o, <<"c", "o", "l", "u", "m", "n", "M", "a", "p", "p", "i", "n", "g", "s">>).a[i].o, <<"f", "i", "l", "e", "N", "a", "m", "e">>).s,
                           Get(Get(v.o, <<"c", "o", "l", "u", "m", "n", "M", "a", "p", "p", "i", "n", "g", "s">>).a[i].o, <<"c", "o", "l", "u", "m", "n", "N", "a", "m", "e">>).s)])

-----------------------------------------------------------------------------
(* components/FileUpload.tsx: loadDemoData *)

Customer(id, company, region, contact) ==
  << <<<<"C", "u", "s", "t", "o", "m", "e", "r", "I", "D">>, Num(id)>>, <<<<"C", "o", "m", "p", "a", "n", "y">>, Str(company)>>,
     <<<<"R", "e", "g", "i", "o", "n">>, Str(region)>>, <<<<"C", "o", "n", "t", "a", "c", "t">>, Str(contact)>> >>

Order(orderId, ref, product, amount) ==
  << <<<<"O", "r", "d", "e", "r", "I", "D">>, Str(orderId)>>, <<<<"C", "u", "s", "t", "_", "R", "e", "f", "_", "I", "D">>, Num(ref)>>,
     <<<<"P", "r", "o", "d", "u", "c", "t">>, Str(product)>>, <<<<"A", "m", "o", "u", "n", "t">>, Num(amount)>> >>

customers ==
  << Customer(101, <<"T", "e", "c", "h", "C", "o", "r", "p">>, <<"N", "o", "r", "t", "h">>, <<"A", "l", "i", "c", "e", " ", "S", "m", "i", "t", "h">>),
     Customer(102, <<"B", "i", "z", "S", "o", "l", "u", "t", "i", "o", "n", "s">>, <<"S", "o", "u", "t", "h">>, <<"B", "o", "b", " ", "J", "o", "n", "e", "s">>),
     Customer(103, <<"G", "l", "o", "b", "a", "l", "T", "r", "a", "d", "e">>, <<"E", "a", "s", "t">>, <<"C", "h", "a", "r", "l", "i", "e", " ", "D", "a", "y">>),
     Customer(104, <<"S", "t", "a", "r", "t", "U", "p", " ", "I", "n", "c">>, <<"W", "e", "s", "t">>, <<"D", "i", "a", "n", "a", " ", "P", "r", "i", "n", "c", "e">>),
     Customer(105, <<"M", "e", "g", "a", "C", "o", "r", "p">>, <<"N", "o", "r", "t", "h">>, <<"E", "v", "e", " ", "P", "o", "l", "a", "s", "t", "r", "i">>) >>

orders ==
  << Order(<<"O", "R", "D", "-", "0", "0", "1">>, 101, <<"S", "e", "r", "v", "e", "r", " ", "R", "a", "c", "k">>, 5000),
     Order(<<"O", "R", "D", "-", "0", "0", "2">>, 101, <<"M", "a", "i", "n", "t", "e", "n", "a", "n", "c", "e">>, 1200),
     Order(<<"O", "R", "D", "-", "0", "0", "3">>, 102, <<"C", "o", "n", "s", "u", "l", "t", "i", "n", "g">>, 3000),
     Order(<<"O", "R", "D", "-", "0", "0", "4">>, 103, <<"S", "o", "f", "t", "w", "a", "r", "e", " ", "L", "i", "c">>, 800),
     Order(<<"O", "R", "D", "-", "0", "0", "5">>, 103, <<"S", "u", "p", "p", "o", "r", "t">>, 400),
     Order(<<"O", "R", "D", "-", "0", "0", "6">>, 999, <<"M", "y", "s", "t", "e", "r", "y", " ", "P", "u", "r", "c", "h", "a", "s", "e">>, 100) >>

CustomersName == <<"C", "R", "M", "_", "C", "u", "s", "t", "o", "m", "e", "r", "s", ".", "c", "s", "v">>

OrdersName == <<"S", "a", "l", "e", "s", "_", "O", "r", "d", "e", "r", "s", ".", "c", "s", "v">>

demoFiles ==
  << ParsedFile(CustomersName, Keys(customers[1]), customers),
     ParsedFile(OrdersName, Keys(orders[1]), orders) >>

\* the candidate that maps the two key columns of the demo data
demoCandidate ==
  JoinCandidate(<<"C", "u", "s", "t", "o", "m", "e", "r", " ", "I", "D">>,
                << Mapping(CustomersName, <<"C", "u", "s", "t", "o", "m", "e", "r", "I", "D">>),
                   Mapping(OrdersName, <<"C", "u", "s", "t", "_", "R", "e", "f", "_", "I", "D">>) >>)


-----------------------------------------------------------------------------
(* Inputs: the datasets, the candidate and the answer of the external      *)
(* service that a run starts from                                          *)

MaxRows == 2

MaxFiles == 3

MaxDepth == 2

SeqsUpTo(S, n) == UNION {[1..m -> S] : m \in 0..n}

Input(fs, cand, resp) == [files |-> fs, candidate |-> cand, response |-> resp]

\* Keys: two files whose key columns hold numbers, padded strings and blanks
LeftRows ==
  { << <<<<"i", "d">>, key>>, <<<<"v">>, Str(<<"p">>)>> >> : key \in {Num(1), Str(<<"3">>), Str(<<>>)} }

RightRows ==
  { << <<<<"w">>, Str(<<"q">>)>>, <<<<"r", "e", "f">>, key>> >> : key \in {Str(<<" ", "1", " ">>), Num(2)} }
  \cup { << <<<<"w">>, Str(<<"q">>)>> >> }

KeyInputs ==
  { Input(<< ParsedFile(<<"l", "e", "f", "t", ".", "c", "s", "v">>, <<<<"i", "d">>, <<"v">>>>, l),
             ParsedFile(<<"r", "i", "g", "h", "t", ".", "c", "s", "v">>, <<<<"w">>, <<"r", "e", "f">>>>, r) >>,
          JoinCandidate(<<"K", "e", "y">>, << Mapping(<<"l", "e", "f", "t", ".", "c", "s", "v">>, <<"i", "d">>),
                                   Mapping(<<"r", "i", "g", "h", "t", ".", "c", "s", "v">>, <<"r", "e", "f">>) >>),
          NoResponse) :
      l \in SeqsUpTo(LeftRows, MaxRows), r \in SeqsUpTo(RightRows, MaxRows) }

\* Shapes: zero to MaxFiles files, each mapped or not by the candidate
ShapeRow(key, v) == << <<<<"k">>, key>>, <<<<"v">>, Num(v)>> >>

ShapeData ==
  { << ShapeRow(Num(1), 1), ShapeRow(Str(<<"1">>), 2) >>,
    << ShapeRow(Str(<<" ", "\t">>), 1), ShapeRow(Num(2), 2) >> }

ShapeName(i) == <<"f">> \o NumToString(i) \o <<".", "c", "s", "v">>

ShapeFiles(ds) == [i \in 1..Len(ds) |-> ParsedFile(ShapeName(i), <<<<"k">>, <<"v">>>>, ds[i])]

\* the mappings of the files in mapped, in file order
ShapeMappings(n, mapped) ==
  LET idx == SelectSeq([i \in 1..n |-> i], LAMBDA i : i \in mapped)
  IN [i \in 1..Len(idx) |-> Mapping(ShapeName(idx[i]), <<"k">>)]

ShapeInputs ==
  { Input(ShapeFiles(ds), JoinCandidate(<<"K", "e", "y">>, ShapeMappings(Len(ds), mapped)), NoResponse) :
      ds \in SeqsUpTo(ShapeData, MaxFiles), mapped \in SUBSET (1..MaxFiles) }

\* Names: two files whose names and columns may coincide, and a key name
\* that may coincide with an output column
Names == {<<"a", ".", "c", "s", "v">>, <<"a", ".", "x", "l", "s", "x">>, <<"a", " ", "b", ".", "c", "s", "v">>, <<"a", "_", "b", ".", "c", "s", "v">>, <<"b", ".", "c", "s", "v">>}

KeyNames == {<<"K", "e", "y">>, <<"a", " ", "-", " ", "v">>, <<"_", "J", "o", "i", "n", "_", "S", "t", "a", "t", "u", "s">>}

NameInputs ==
  { Input(<< ParsedFile(n1, <<<<"k">>, <<"v">>>>, << << <<<<"k">>, Num(1)>>, <<<<"v">>, Str(<<"p">>)>> >> >>),
             ParsedFile(n2, <<<<"k">>, <<"v">>>>, << << <<<<"k">>, key>>, <<<<"v">>, Str(<<"q">>)>> >> >>) >>,
          JoinCandidate(kn, << Mapping(n1, <<"k">>), Mapping(n2, <<"k">>) >>),
          NoResponse) :
      n1 \in Names, n2 \in Names, kn \in KeyNames, key \in {Num(1), Num(2)} }

\* Cells: values nested to depth d
RECURSIVE Cells(_)
Cells(d) ==
  IF d = 0 THEN {Null, Num(1), Str(<<"x">>)}
  ELSE Cells(d - 1)
       \cup {Arr(<<Num(1), v>>) : v \in Cells(d - 1)}
       \cup {Obj(<< <<<<"a">>, v>> >>) : v \in Cells(d - 1)}

\* the array [1, {"a": 2}]
ExampleCell == Arr(<<Num(1), Obj(<< <<<<"a">>, Num(2)>> >>)>>)

CellInputs ==
  { Input(<< ParsedFile(<<"a", ".", "c", "s", "v">>, <<<<"k">>, <<"v">>>>, << << <<<<"k">>, key>>, <<<<"v">>, cell>> >> >>),
             ParsedFile(<<"b", ".", "c", "s", "v">>, <<<<"k">>, <<"w">>>>,
                        << << <<<<"k">>, Num(1)>>, <<<<"w">>, Str(<<"q">>)>> >> >>) >>,
          JoinCandidate(<<"K", "e", "y">>, << Mapping(<<"a", ".", "c", "s", "v">>, <<"k">>), Mapping(<<"b", ".", "c", "s", "v">>, <<"k">>) >>),
          NoResponse) :
      key \in {Num(1)}, cell \in Cells(MaxDepth) \cup {ExampleCell, Bool(TRUE)} }
  \cup
  { Input(<< ParsedFile(<<"a", ".", "c", "s", "v">>, <<<<"k">>, <<"v">>>>, << << <<<<"k">>, key>>, <<<<"v">>, cell>> >> >>),
             ParsedFile(<<"b", ".", "c", "s", "v">>, <<<<"k">>, <<"w">>>>,
                        << << <<<<"k">>, Num(1)>>, <<<<"w">>, Str(<<"q">>)>> >> >>) >>,
          JoinCandidate(<<"K", "e", "y">>, << Mapping(<<"a", ".", "c", "s", "v">>, <<"k">>), Mapping(<<"b", ".", "c", "s", "v">>, <<"k">>) >>),
          NoResponse) :
      key \in Cells(MaxDepth), cell \in {Str(<<"p">>)} }

\* Answers: what the external service may return for a semantic merge
AnswerRows ==
  {Str(<<"x">>), Null, Bool(TRUE), Arr(<<Num(1)>>)}
  \cup {Obj(<< <<<<"c">>, cell>> >>) : cell \in Cells(MaxDepth)}

Answers ==
  {[kind |-> "nokey"], [kind |-> "reject"], [kind |-> "empty"],
   [kind |-> "notjson", text |-> <<"S", "o", "r", "r", "y">>]}
  \cup {[kind |-> "json", value |-> v] :
          v \in {Num(1), Str(<<"x">>), Null, Obj(<< <<<<"c">>, Num(1)>> >>), Arr(<<>>)}}
  \cup {[kind |-> "json", value |-> Arr(<<r>>)] : r \in AnswerRows}
  \cup {[kind |-> "json", value |-> Arr(<<Obj(<< <<<<"c">>, Num(1)>>, <<<<"d">>, Null>> >>), r>>)] :
          r \in AnswerRows}

AnswerInputs ==
  { Input(<< ParsedFile(<<"a", ".", "c", "s", "v">>, <<<<"k">>>>, << << <<<<"k">>, Num(1)>> >> >>),
             ParsedFile(<<"b", ".", "c", "s", "v">>, <<<<"k">>>>, << << <<<<"k">>, Num(1)>> >> >>) >>,
          JoinCandidate(<<"K", "e", "y">>, << Mapping(<<"a", ".", "c", "s", "v">>, <<"k">>), Mapping(<<"b", ".", "c", "s", "v">>, <<"k">>) >>),
          resp) :
      resp \in Answers }

\* Demo: the two datasets of loadDemoData
DemoInputs == { Input(demoFiles, demoCandidate, NoResponse) }

Inputs ==
  KeyInputs \cup ShapeInputs \cup NameInputs \cup CellInputs \cup AnswerInputs
  \cup DemoInputs

-----------------------------------------------------------------------------
(* The state machine *)

NoStats == [none |-> TRUE]

NoFile == [none |-> TRUE]

NoSheet == [none |-> TRUE]

NoResult == [none |-> TRUE]

NoUpload == [none |-> TRUE]

\* AnalysisResult and InsightsModal as useState initialises them
UiStart ==
  /\ selectedCandidateIndex = 0
  /\ selectedJoinType = "ADDITIVE"
  /\ aiPlan = <<>>
  /\ isPlanning = FALSE
  /\ planCalls = <<>>
  /\ insightFile = NoFile
  /\ description = <<>>
  /\ columnNotes = <<"{", "}">>
  /\ input = <<>>
  /\ isTyping = FALSE
  /\ chatCalls = <<>>

\* App as useState initialises it
AppStart ==
  /\ workspace = <<>>
  /\ analysisStatus = "IDLE"
  /\ candidates = <<>>
  /\ error = Null
  /\ pending = <<>>
  /\ upload = NoUpload
  /\ now = 1

Init ==
  /\ \E inp \in Inputs :
       /\ files = inp.files
       /\ candidate = inp.candidate
       /\ response = inp.response
  /\ pc = "mounted"
  /\ stats = NoStats
  /\ joinType = "NONE"
  /\ action = "none"
  /\ joinedData = <<>>
  /\ saved = NoFile
  /\ sheet = NoSheet
  /\ request = NoRequest
  /\ result = NoResult
  /\ AppStart
  /\ UiStart

\* useEffect(..., [activeCandidate, files]): the stats of the mounted component
StatsEffect ==
  /\ pc = "mounted"
  /\ pc' = "ready"
  /\ stats' = IF Len(files) > 0 THEN calculateJoinStats(files, candidate) ELSE stats
  /\ UNCHANGED <<files, candidate, response, joinType, action, joinedData, saved, sheet>>

\* handleAction(action), clicked with selectedJoinType selected: isProcessing
\* is set and the work is left to the timeout callback.  joinedData, saved
\* and sheet are what the current call has produced: the joined rows, the
\* file handed to onSaveJoinedFile and the rows handed to the sheet writer.
HandleAction(joinT, a) ==
  /\ pc = "ready"
  /\ pc' = "processing"
  /\ joinType' = joinT
  /\ action' = a
  /\ joinedData' = <<>>
  /\ saved' = NoFile
  /\ sheet' = NoSheet
  /\ UNCHANGED <<files, candidate, response, stats>>

\* the joined rows of the call, or failed when generateSemanticMerge throws
joinResult(joinT) ==
  IF joinT = "AI_SEMANTIC"
  THEN LET r == generateSemanticMerge(response)
       IN [failed |-> ~r.ok, rows |-> r.rows]
  ELSE [failed |-> FALSE, rows |-> joinDatasets(files, candidate, joinT)]

\* the setTimeout callback of handleAction
TimeoutCallback ==
  /\ pc = "processing"
  /\ pc' = "ready"
  /\ LET res == joinResult(joinType)
         name == fileName(joinType, candidate)
     IN /\ joinedData' = res.rows
        /\ saved' = IF ~res.failed /\ action = "save"
                    THEN createJoinedFile(res.rows, name \o <<" ", "(", "J", "o", "i", "n", "e", "d", ")">>)
                    ELSE NoFile
        /\ sheet' = IF ~res.failed /\ action = "download"
                    THEN [filename |-> name \o <<".", "c", "s", "v">>, rows |-> downloadCSV(res.rows)]
                    ELSE NoSheet
  /\ UNCHANGED <<files, candidate, response, stats, joinType, action>>

Next ==
  /\ \/ StatsEffect
     \/ \E T \in JoinTypes, a \in {"download", "save"} : HandleAction(T, a)
     \/ TimeoutCallback
  /\ UNCHANGED <<serviceVars, appVars, uiVars>>

Spec == Init /\ [][Next]_vars


-----------------------------------------------------------------------------
(* The service functions applied to bounded inputs *)

\* a file with a column that is no header
SmallFile ==
  ParsedFile(<<"a", ".", "c", "s", "v">>, <<<<"k">>, <<"v">>>>,
             << << <<<<"k">>, Num(1)>>, <<<<"v">>, Str(<<"p">>)>> >>,
                << <<<<"k">>, Num(2)>>, <<<<"v">>, Null>>, <<<<"n", "o", "t", "e">>, Str(<<"x">>)>> >> >>)

\* a file with more rows than any sample: row j holds j
BigFile ==
  ParsedFile(<<"b", "i", "g", ".", "c", "s", "v">>, <<<<"k">>>>,
             [j \in 1..(MergeRows + MaxRows) |-> << <<<<"k">>, Num(j)>> >>])

ServiceCandidate == JoinCandidate(<<"K", "e", "y">>, << Mapping(<<"a", ".", "c", "s", "v">>, <<"k">>), Mapping(<<"b", "i", "g", ".", "c", "s", "v">>, <<"k">>) >>)

ServiceAnswers ==
  {[kind |-> "nokey"], [kind |-> "reject"], [kind |-> "empty"],
   [kind |-> "notjson", text |-> <<"M", "a", "t", "c", "h", " ", "o", "n", " ", "k">>]}
  \cup {[kind |-> "json", value |-> v] :
          v \in {Null, Num(1), Arr(<<>>), Arr(<<Obj(<< <<<<"k">>, Num(1)>> >>)>>),
                 Obj(<< <<<<"c", "a", "n", "d", "i", "d", "a", "t", "e", "s">>, Arr(<<candidateValue(ServiceCandidate)>>)>> >>)}}

ServiceInputs ==
  { Input(fs, ServiceCandidate, resp) :
      fs \in {<<>>, <<SmallFile>>, <<BigFile>>, <<SmallFile, BigFile>>, <<BigFile, SmallFile>>},
      resp \in ServiceAnswers }

ServiceInit ==
  /\ \E inp \in ServiceInputs :
       /\ files = inp.files
       /\ candidate = inp.candidate
       /\ response = inp.response
  /\ pc = "service"
  /\ stats = NoStats
  /\ joinType = "NONE"
  /\ action = "none"
  /\ joinedData = <<>>
  /\ saved = NoFile
  /\ sheet = NoSheet
  /\ request = NoRequest
  /\ result = NoResult
  /\ AppStart
  /\ UiStart

\* what a call leaves behind: its request and what its promise settled to
Called(service, req, outcome) ==
  /\ pc = "service"
  /\ request' = sent(response, req)
  /\ result' = [service |-> service, outcome |-> outcome]
  /\ UNCHANGED <<joinVars, appVars, uiVars>>

CallAnalyze ==
  Called("analyzeFilesForJoin", analyzeRequest(files), analyzeFilesForJoin(response))

CallPlan ==
  Called("generateMergePlan", planRequest(files, candidate), generateMergePlan(response))

CallMerge(userInstructions) ==
  Called("generateSemanticMerge", mergeRequest(files, candidate, userInstructions),
         generateSemanticMerge(response))

CallChat(i, userMessage) ==
  Called("chatWithDataset", chatRequest(files[i], userMessage), chatWithDataset(response))

ServiceNext ==
  \/ CallAnalyze
  \/ CallPlan
  \/ \E userInstructions \in {<<>>, <<"M", "a", "t", "c", "h", " ", "o", "n", " ", "k">>} : CallMerge(userInstructions)
  \/ \E i \in 1..Len(files) : CallChat(i, <<"h", "i">>)

ServiceSpec == ServiceInit /\ [][ServiceNext]_vars

-----------------------------------------------------------------------------
(***************************************************************************)
(* App.tsx: the workspace.  An entry of the workspace is a file with its   *)
(* id.  An id is a prefix and a number: <<"demo-", 1>> is 'demo-1',        *)
(* <<"joined-", t>> is `joined-${Date.now()}` and <<"", n>> is a string    *)
(* Math.random() gave.  The clock advances with every operation that       *)
(* brings files into the workspace, and MaxTime is the last time such an   *)
(* operation starts.  files and candidate are the props the running        *)
(* handleAction call has captured.                                         *)
(***************************************************************************)
MaxTime == 3

MaxPending == 2

MaxWorkspace == 3

\* the join type selected in the workspace: the one selected on mount
AppJoinTypes == {"ADDITIVE"}

Entry(id, file) == [id |-> id, file |-> file]

FilesOf(entries) == [i \in 1..Len(entries) |-> entries[i].file]

NamesOf(entries) == {entries[i].file.name : i \in 1..Len(entries)}

FileA == SmallFile

FileB == ParsedFile(<<"b", ".", "c", "s", "v">>, <<<<"k">>, <<"w">>>>, << << <<<<"k">>, Num(1)>>, <<<<"w">>, Str(<<"q">>)>> >> >>)

\* the files the user picks in one file dialog
UploadBatches == {<<FileA, FileB>>}

\* processFile gives each parsed file a new id
parsedFiles(batch) == [i \in 1..Len(batch) |-> Entry(<<"", 10 * now + i>>, batch[i])]

\* the demoFiles of loadDemoData with their ids
demoEntries == [i \in 1..Len(demoFiles) |-> Entry(<<"demo-", i>>, demoFiles[i])]

\* a workspace exported earlier
ImportedWorkspaces == {<<Entry(<<"", 1>>, FileB), Entry(<<"", 2>>, FileA)>>}

\* what the service may answer to key discovery on fs: a rejection, no
\* candidate, or one candidate on the first column of every file
DiscoveredCandidate(fs) ==
  JoinCandidate(<<"K", "e", "y">>, [i \in 1..Len(fs) |-> Mapping(fs[i].name, fs[i].headers[1])])

DiscoveryAnswers(fs) ==
  {[kind |-> "reject"],
   [kind |-> "json", value |-> Obj(<< <<<<"c", "a", "n", "d", "i", "d", "a", "t", "e", "s">>, Arr(<<>>)>> >>)]}
  \cup (IF \A i \in 1..Len(fs) : Len(fs[i].headers) > 0
        THEN {[kind |-> "json",
               value |-> Obj(<< <<<<"c", "a", "n", "d", "i", "d", "a", "t", "e", "s">>,
                                  Arr(<<candidateValue(DiscoveredCandidate(fs))>>)>> >>)]}
        ELSE {})

\* what the service may answer to a semantic merge
MergeAnswers ==
  {[kind |-> "reject"],
   [kind |-> "json", value |-> Arr(<<Obj(<< <<<<"k">>, Num(1)>> >>)>>)]}

AppInit ==
  /\ files = <<>>
  /\ candidate = JoinCandidate(<<>>, <<>>)
  /\ response = [kind |-> "empty"]
  /\ pc = "ready"
  /\ stats = NoStats
  /\ joinType = "NONE"
  /\ action = "none"
  /\ joinedData = <<>>
  /\ saved = NoFile
  /\ sheet = NoSheet
  /\ request = NoRequest
  /\ result = NoResult
  /\ AppStart
  /\ UiStart

\* FileUpload starts processing: the input and the demo button are enabled
\* when neither isProcessing nor isAnalyzing, and the handler keeps the
\* handleFilesParsed of the render it was made in
StartUpload(entries) ==
  /\ upload = NoUpload
  /\ analysisStatus # "ANALYZING"
  /\ Len(workspace) + Len(entries) <= MaxWorkspace
  /\ upload' = [newFiles |-> entries, files |-> NamesOf(workspace),
                analysisStatus |-> analysisStatus]
  /\ UNCHANGED <<joinVars, serviceVars, uiVars, workspace, analysisStatus, candidates, error,
                 pending>>

\* handleFileChange, up to the await
HandleFileChange(batch) ==
  /\ now <= MaxTime
  /\ StartUpload(parsedFiles(batch))
  /\ now' = now + 1

\* loadDemoData, up to the timeout
LoadDemoData ==
  /\ now <= MaxTime
  /\ StartUpload(demoEntries)
  /\ now' = now + 1

\* handleFilesParsed(newFiles), called when the upload is processed
HandleFilesParsed ==
  /\ upload # NoUpload
  /\ LET newFiles == upload.newFiles
         uniqueNewFiles ==
           SelectSeq(newFiles, LAMBDA nf : nf.file.name \notin upload.files)
     IN workspace' = workspace \o uniqueNewFiles
  /\ IF upload.analysisStatus = "COMPLETED"
     THEN analysisStatus' = "IDLE" /\ candidates' = <<>>
     ELSE UNCHANGED <<analysisStatus, candidates>>
  /\ upload' = NoUpload
  /\ UNCHANGED <<joinVars, serviceVars, uiVars, error, pending, now>>

\* removeFile(id) of the i-th file card
RemoveFile(i) ==
  /\ workspace' = SelectSeq(workspace, LAMBDA f : f.id # workspace[i].id)
  /\ IF Len(workspace) <= 2
     THEN analysisStatus' = "IDLE" /\ candidates' = <<>>
     ELSE UNCHANGED <<analysisStatus, candidates>>
  /\ UNCHANGED <<joinVars, serviceVars, uiVars, error, pending, upload, now>>

\* importState: reader.onload with a JSON array
ImportState(json) ==
  /\ now <= MaxTime
  /\ now' = now + 1
  /\ workspace' = json
  /\ analysisStatus' = "IDLE"
  /\ candidates' = <<>>
  /\ UNCHANGED <<joinVars, serviceVars, uiVars, error, pending, upload>>

\* performReset, confirmed from the Clear All button
PerformReset ==
  /\ Len(workspace) > 0
  /\ workspace' = <<>>
  /\ candidates' = <<>>
  /\ analysisStatus' = "IDLE"
  /\ error' = Null
  /\ UNCHANGED <<joinVars, serviceVars, uiVars, pending, upload, now>>

\* handleAnalyze, up to the await
HandleAnalyze ==
  /\ Len(workspace) >= 2
  /\ analysisStatus # "ANALYZING"
  /\ Len(pending) < MaxPending
  /\ analysisStatus' = "ANALYZING"
  /\ error' = Null
  /\ candidates' = <<>>
  /\ pending' = Append(pending, FilesOf(workspace))
  /\ UNCHANGED <<joinVars, serviceVars, uiVars, workspace, upload, now>>

\* handleAnalyze, after the await: the k-th call settles
AnalyzeSettles(k, resp) ==
  /\ LET results == analyzeFilesForJoin(resp)
     IN IF results.ok
        THEN /\ candidates' = [i \in 1..Len(results.value.a) |-> asCandidate(results.value.a[i])]
             /\ analysisStatus' = "COMPLETED"
             /\ UNCHANGED error
        ELSE /\ error' = Str(<<"F", "a", "i", "l", "e", "d", " ", "t", "o", " ", "a", "n", "a", "l", "y", "z", "e", " ", "f", "i", "l", "e", "s", ".", " ", "P", "l", "e", "a", "s", "e", " ", "c", "h", "e", "c", "k", " ", "y", "o", "u", "r", " ", "A", "P", "I", " ", "k", "e", "y", " ", "a", "n", "d", " ", "t", "r", "y", " ", "a", "g", "a", "i", "n", ".">>)
             /\ analysisStatus' = "ERROR"
             /\ UNCHANGED candidates
  /\ pending' = [i \in 1..(Len(pending) - 1) |-> IF i < k THEN pending[i] ELSE pending[i + 1]]
  /\ UNCHANGED <<joinVars, serviceVars, uiVars, workspace, upload, now>>

\* handleAction('save') of the AnalysisResult App renders when there are
\* candidates, with the first candidate active; resp is what the service
\* will answer if the call asks it
SaveAction(joinT, resp) ==
  /\ Len(candidates) > 0
  /\ pc = "ready"
  /\ now <= MaxTime
  /\ Len(workspace) < MaxWorkspace
  /\ files' = FilesOf(workspace)
  /\ candidate' = candidates[1]
  /\ response' = resp
  /\ pc' = "processing"
  /\ joinType' = joinT
  /\ action' = "save"
  /\ joinedData' = <<>>
  /\ saved' = NoFile
  /\ sheet' = NoSheet
  /\ now' = now + 1
  /\ UNCHANGED <<stats, serviceVars, uiVars, workspace, analysisStatus, candidates, error, pending,
                 upload>>

\* the timeout callback of handleAction with onSaveJoinedFile =
\* handleSaveJoinedFile
SaveCallback ==
  /\ TimeoutCallback
  /\ workspace' = IF saved' # NoFile
                   THEN Append(workspace, Entry(<<"joined-", now>>, saved'))
                   ELSE workspace
  /\ UNCHANGED <<serviceVars, uiVars, analysisStatus, candidates, error, pending, upload, now>>

AppNext ==
  \/ \E batch \in UploadBatches : HandleFileChange(batch)
  \/ LoadDemoData
  \/ HandleFilesParsed
  \/ \E i \in 1..Len(workspace) : RemoveFile(i)
  \/ \E json \in ImportedWorkspaces : ImportState(json)
  \/ PerformReset
  \/ HandleAnalyze
  \/ \E k \in 1..Len(pending) : \E resp \in DiscoveryAnswers(pending[k]) : AnalyzeSettles(k, resp)
  \/ \E T \in AppJoinTypes :
       \E resp \in (IF T = "AI_SEMANTIC" THEN MergeAnswers ELSE {[kind |-> "empty"]}) :
         SaveAction(T, resp)
  \/ SaveCallback

AppSpec == AppInit /\ [][AppNext]_vars

-----------------------------------------------------------------------------
(***************************************************************************)
(* AnalysisResult: the plan editor.  The component is mounted with two or  *)
(* three candidates on the files a.csv and b.csv; candidate is the         *)
(* activeCandidate, candidates[selectedCandidateIndex].  A handler is      *)
(* taken together with the effects that run after it.  A call not settled  *)
(* yet is the request it has sent.                                         *)
(***************************************************************************)
PlanCandidates ==
  << JoinCandidate(<<"K", "e", "y">>, << Mapping(<<"a", ".", "c", "s", "v">>, <<"k">>), Mapping(<<"b", ".", "c", "s", "v">>, <<"k">>) >>),
     JoinCandidate(<<"V", "a", "l", "u", "e">>, << Mapping(<<"a", ".", "c", "s", "v">>, <<"v">>), Mapping(<<"b", ".", "c", "s", "v">>, <<"w">>) >>),
     JoinCandidate(<<"N", "o", "t", "e">>, << Mapping(<<"a", ".", "c", "s", "v">>, <<"n", "o", "t", "e">>), Mapping(<<"b", ".", "c", "s", "v">>, <<"w">>) >>) >>

\* the plan the service drafts for a request names the key it was asked for
PlanOf(keyName) == <<"M", "a", "t", "c", "h", " ", "o", "n", " ">> \o keyName

\* what the service may answer to a request for a plan
PlanAnswers(req) ==
  {[kind |-> "reject"], [kind |-> "empty"], [kind |-> "notjson", text |-> PlanOf(req.keyName)]}

\* what the user may leave in the editor
PlanEdits == {<<>>, <<"K", "e", "e", "p", " ", "v">>}

PlanInit ==
  /\ files = <<FileA, FileB>>
  /\ \E n \in 2..Len(PlanCandidates) : candidates = SubSeq(PlanCandidates, 1, n)
  /\ candidate = PlanCandidates[1]
  /\ response = [kind |-> "empty"]
  /\ pc = "ready"
  /\ stats = calculateJoinStats(<<FileA, FileB>>, PlanCandidates[1])
  /\ joinType = "NONE"
  /\ action = "none"
  /\ joinedData = <<>>
  /\ saved = NoFile
  /\ sheet = NoSheet
  /\ request = NoRequest
  /\ result = NoResult
  /\ workspace = <<Entry(<<"", 1>>, FileA), Entry(<<"", 2>>, FileB)>>
  /\ analysisStatus = "COMPLETED"
  /\ error = Null
  /\ pending = <<>>
  /\ upload = NoUpload
  /\ now = 1
  /\ UiStart

\* useEffect(..., [selectedJoinType, activeCandidate, files, aiPlan,
\* isPlanning]) with the state the handler has left
PlanEffect(joinT, plan, planning, cand) ==
  IF joinT = "AI_SEMANTIC" /\ plan = <<>> /\ ~planning /\ Len(files) > 0
  THEN /\ isPlanning' = TRUE
       /\ planCalls' = Append(planCalls, planRequest(files, cand))
  ELSE /\ isPlanning' = planning
       /\ planCalls' = planCalls

\* setSelectedCandidateIndex(idx) on another tab: the first effect gives
\* the stats of the candidate and resets the plan
SelectCandidate(idx) ==
  /\ idx # selectedCandidateIndex
  /\ selectedCandidateIndex' = idx
  /\ candidate' = candidates[idx + 1]
  /\ stats' = calculateJoinStats(files, candidate')
  /\ aiPlan' = <<>>
  /\ PlanEffect(selectedJoinType, <<>>, isPlanning, candidate')
  /\ UNCHANGED <<files, response, pc, joinType, action, joinedData, saved, sheet,
                 serviceVars, appVars, selectedJoinType, chatVars>>

\* setSelectedJoinType(opt.type) on another option
SelectJoinType(joinT) ==
  /\ joinT # selectedJoinType
  /\ selectedJoinType' = joinT
  /\ PlanEffect(joinT, aiPlan, isPlanning, candidate)
  /\ UNCHANGED <<joinVars, serviceVars, appVars, selectedCandidateIndex, aiPlan, chatVars>>

\* onChange of the editor, which is shown for AI_SEMANTIC and disabled
\* while a plan is generated
EditPlan(text) ==
  /\ selectedJoinType = "AI_SEMANTIC"
  /\ ~isPlanning
  /\ text # aiPlan
  /\ aiPlan' = text
  /\ PlanEffect(selectedJoinType, text, isPlanning, candidate)
  /\ UNCHANGED <<joinVars, serviceVars, appVars, selectedCandidateIndex, selectedJoinType,
                 chatVars>>

\* generateMergePlan(...).then(plan => ...): the i-th call settles
PlanSettles(i, resp) ==
  /\ LET plan == generateMergePlan(resp).value.s
     IN /\ aiPlan' = plan
        /\ planCalls' = [j \in 1..(Len(planCalls) - 1) |->
                           IF j < i THEN planCalls[j] ELSE planCalls[j + 1]]
        /\ isPlanning' = FALSE
  /\ UNCHANGED <<joinVars, serviceVars, appVars, selectedCandidateIndex, selectedJoinType,
                 chatVars>>

PlanNext ==
  \/ \E idx \in 0..(Len(candidates) - 1) : SelectCandidate(idx)
  \/ \E joinT \in JoinTypes : SelectJoinType(joinT)
  \/ \E text \in PlanEdits : EditPlan(text)
  \/ \E i \in 1..Len(planCalls) : \E resp \in PlanAnswers(planCalls[i]) : PlanSettles(i, resp)

PlanSpec == PlanInit /\ [][PlanNext]_vars

-----------------------------------------------------------------------------
(***************************************************************************)
(* InsightsModal and updateFileState of App.  An aiContext is a record     *)
(* that has the fields the object has; columnMeanings is an object of      *)
(* strings.  A handler is taken together with the effect that runs when    *)
(* the file of the modal changes.  A call not settled yet is what its      *)
(* continuation has captured: updatedFile and updatedHistory.              *)
(***************************************************************************)
\* { ...a, ...b }
Spread(a, b) ==
  [k \in (DOMAIN a) \cup (DOMAIN b) |-> IF k \in DOMAIN b THEN b[k] ELSE a[k]]

\* file.aiContext, for the spread: undefined spreads to nothing
aiContextOf(file) == IF "aiContext" \in DOMAIN file THEN file.aiContext ELSE <<>>

\* file.aiContext?.chatHistory || []
chatHistoryOf(file) ==
  IF "chatHistory" \in DOMAIN aiContextOf(file) THEN aiContextOf(file).chatHistory ELSE <<>>

\* { ...file, aiContext: ctx }
withContext(file, ctx) == Spread(file, [aiContext |-> ctx])

ChatMessage(role, text, timestamp) == [role |-> role, text |-> text, timestamp |-> timestamp]

\* JSON.stringify(o, null, 2) for an object o of strings
JsonIndent(o) ==
  IF o = <<>> THEN <<"{", "}">>
  ELSE <<"{">> \o <<"\n">>
       \o Join([i \in 1..Len(o) |->
                  <<" ", " ">> \o JsonQuote(o[i][1]) \o <<":", " ">> \o JsonStringify(o[i][2])],
               <<",", "\n">>)
       \o <<"\n">> \o <<"}">>

\* the column notes the user may save
NoteValues == {<<>>, << <<<<"v">>, Str(<<"p", "r", "i", "c", "e">>)>> >>}

\* JSON.parse(text): the object written as text, with or without
\* indentation, or a failure
JsonParse(text) ==
  IF \E o \in NoteValues : text \in {JsonIndent(o), JsonStringify(Obj(o))}
  THEN [ok |-> TRUE,
        value |-> CHOOSE o \in NoteValues : text \in {JsonIndent(o), JsonStringify(Obj(o))}]
  ELSE [ok |-> FALSE]

\* the number of messages the user sends
MaxSends == 2

\* what the user may type
Descriptions == {<<>>, <<"s", "a", "l", "e", "s">>}

NoteTexts == {JsonIndent(o) : o \in NoteValues} \cup {<<"o", "o", "p", "s">>}

Messages == {<<"h", "i">>, <<" ">>}

\* what the service may answer to a chat message
ChatAnswers == {[kind |-> "reject"], [kind |-> "notjson", text |-> <<"o", "k">>]}

ChatInit ==
  /\ files = <<>>
  /\ candidate = JoinCandidate(<<>>, <<>>)
  /\ response = [kind |-> "empty"]
  /\ pc = "ready"
  /\ stats = NoStats
  /\ joinType = "NONE"
  /\ action = "none"
  /\ joinedData = <<>>
  /\ saved = NoFile
  /\ sheet = NoSheet
  /\ request = NoRequest
  /\ result = NoResult
  /\ workspace = <<Entry(<<"", 1>>, FileA), Entry(<<"", 2>>, FileB)>>
  /\ analysisStatus = "IDLE"
  /\ candidates = <<>>
  /\ error = Null
  /\ pending = <<>>
  /\ upload = NoUpload
  /\ now = 1
  /\ UiStart

\* useEffect(..., [file]): the local state follows the file of the modal
FileEffect(entry) ==
  IF entry # NoFile /\ "aiContext" \in DOMAIN entry.file
  THEN LET ctx == entry.file.aiContext
       IN /\ description' = IF "userDescription" \in DOMAIN ctx
                            THEN ctx.userDescription ELSE <<>>
          /\ columnNotes' = JsonIndent(IF "columnMeanings" \in DOMAIN ctx
                                       THEN ctx.columnMeanings ELSE <<>>)
  ELSE /\ description' = <<>>
       /\ columnNotes' = <<"{", "}">>

\* updateFileState(updatedFile), of a render in which the modal shows the
\* file: the file takes the place of the one with its id, in the workspace
\* and in the modal
updateFileState(updatedFile) ==
  /\ workspace' = [i \in 1..Len(workspace) |->
                     IF workspace[i].id = updatedFile.id THEN updatedFile ELSE workspace[i]]
  /\ insightFile' = updatedFile
  /\ FileEffect(updatedFile)

\* onInsights(f) of a file card
OpenInsights(i) ==
  /\ insightFile # workspace[i]
  /\ insightFile' = workspace[i]
  /\ FileEffect(workspace[i])
  /\ UNCHANGED <<joinVars, serviceVars, appVars, planVars, input, isTyping, chatCalls>>

\* onClose
CloseInsights ==
  /\ insightFile # NoFile
  /\ insightFile' = NoFile
  /\ FileEffect(NoFile)
  /\ UNCHANGED <<joinVars, serviceVars, appVars, planVars, input, isTyping, chatCalls>>

\* the onChange handlers of the three fields
SetDescription(text) ==
  /\ insightFile # NoFile
  /\ description' = text
  /\ UNCHANGED <<joinVars, serviceVars, appVars, planVars, insightFile, columnNotes, input,
                 isTyping, chatCalls>>

SetColumnNotes(text) ==
  /\ insightFile # NoFile
  /\ columnNotes' = text
  /\ UNCHANGED <<joinVars, serviceVars, appVars, planVars, insightFile, description, input,
                 isTyping, chatCalls>>

SetInput(text) ==
  /\ insightFile # NoFile
  /\ ~isTyping
  /\ input' = text
  /\ UNCHANGED <<joinVars, serviceVars, appVars, planVars, insightFile, description,
                 columnNotes, isTyping, chatCalls>>

\* handleSendMessage, up to the await
HandleSendMessage ==
  /\ insightFile # NoFile
  /\ ~isTyping
  /\ Trim(input) # <<>>
  /\ now <= MaxSends
  /\ LET file == insightFile.file
         userMsg == ChatMessage("user", input, now)
         updatedHistory == Append(chatHistoryOf(file), userMsg)
         updatedFile ==
           Entry(insightFile.id,
                 withContext(file, Spread(aiContextOf(file),
                                          [userDescription |-> description,
                                           chatHistory |-> updatedHistory])))
     IN /\ updateFileState(updatedFile)
        /\ chatCalls' = Append(chatCalls, [updatedFile |-> updatedFile,
                                           updatedHistory |-> updatedHistory])
  /\ input' = <<>>
  /\ isTyping' = TRUE
  /\ now' = now + 1
  /\ UNCHANGED <<joinVars, serviceVars, planVars, analysisStatus, candidates, error, pending,
                 upload>>

\* handleSendMessage, after the await: the i-th call settles
ChatSettles(i, resp) ==
  /\ LET call == chatCalls[i]
         botMsg == ChatMessage("model", chatWithDataset(resp).value.s, now)
         finalFile ==
           Entry(call.updatedFile.id,
                 withContext(call.updatedFile.file,
                             Spread(call.updatedFile.file.aiContext,
                                    [chatHistory |-> Append(call.updatedHistory, botMsg)])))
     IN updateFileState(finalFile)
  /\ chatCalls' = [j \in 1..(Len(chatCalls) - 1) |->
                     IF j < i THEN chatCalls[j] ELSE chatCalls[j + 1]]
  /\ isTyping' = FALSE
  /\ UNCHANGED <<joinVars, serviceVars, planVars, analysisStatus, candidates, error, pending,
                 upload, now, input>>

\* handleSaveContext: nothing is saved when the notes are no JSON
HandleSaveContext ==
  /\ insightFile # NoFile
  /\ JsonParse(columnNotes).ok
  /\ LET file == insightFile.file
         parsedNotes == JsonParse(columnNotes).value
     IN updateFileState(
          Entry(insightFile.id,
                withContext(file, Spread(aiContextOf(file),
                                         [userDescription |-> description,
                                          columnMeanings |-> parsedNotes,
                                          chatHistory |-> chatHistoryOf(file)]))))
  /\ UNCHANGED <<joinVars, serviceVars, planVars, analysisStatus, candidates, error, pending,
                 upload, now, input, isTyping, chatCalls>>

\* handleClearHistory, confirmed
HandleClearHistory ==
  /\ insightFile # NoFile
  /\ LET file == insightFile.file
     IN updateFileState(
          Entry(insightFile.id,
                withContext(file, Spread(aiContextOf(file), [chatHistory |-> <<>>]))))
  /\ UNCHANGED <<joinVars, serviceVars, planVars, analysisStatus, candidates, error, pending,
                 upload, now, input, isTyping, chatCalls>>

ChatNext ==
  \/ \E i \in 1..Len(workspace) : OpenInsights(i)
  \/ CloseInsights
  \/ \E text \in Descriptions : SetDescription(text)
  \/ \E text \in NoteTexts : SetColumnNotes(text)
  \/ \E text \in Messages : SetInput(text)
  \/ HandleSendMessage
  \/ \E i \in 1..Len(chatCalls) : \E resp \in ChatAnswers : ChatSettles(i, resp)
  \/ HandleSaveContext
  \/ HandleClearHistory

ChatSpec == ChatInit /\ [][ChatNext]_vars


-----------------------------------------------------------------------------
(* Properties *)

Range(s) == {s[i] : i \in 1..Len(s)}

\* the handleAction call with an engine join type has returned
Joined == pc = "ready" /\ joinType \in EngineTypes

\* the raw key cell of row j of file i, Undefined without a mapped column
KeyCell(i, j) ==
  LET keyCol == getKeyColumnForFile(files[i], candidate)
  IN IF NoKeyCol(keyCol) THEN Undefined ELSE Get(files[i].data[j], keyCol.s)

\* C1: the estimate calculateJoinStats gives for a join type equals the
\* number of records joinDatasets returns for that type, for INNER, OUTER,
\* LEFT and ADDITIVE, whatever the datasets and the candidate.
EstimatorAgrees ==
  Joined =>
    /\ Len(joinedData) = calculateJoinStats(files, candidate)[joinType]
    /\ stats # NoStats => stats[joinType] = Len(joinedData)

\* a LEFT join of files with a shared key, a key the second file misses and
\* a blank key
EstimatorWitness ==
  /\ Joined
  /\ joinType = "LEFT"
  /\ stats # NoStats
  /\ 0 < stats.INNER /\ stats.INNER < stats.LEFT
  /\ Len(joinedData) = stats.LEFT
  /\ \E i \in 1..Len(files) : \E j \in 1..Len(files[i].data) :
       normalizeKey(KeyCell(i, j)) = <<>>

\* the records of joinedData whose join key is key
RecordsOfKey(key) ==
  {c \in 1..Len(joinedData) : Get(joinedData[c], candidate.keyName) = Str(key)}

\* C2: on the demo customers and orders the estimates are INNER 5, LEFT 7,
\* OUTER 8 and ADDITIVE 8, and the ADDITIVE join marks the record of key
\* 104 "Unique to <customers file name>" and every record of key 101
\* "Matched (All Files)".
DemoScenario ==
  (files = demoFiles /\ candidate = demoCandidate) =>
    /\ stats # NoStats =>
         /\ stats.INNER = 5
         /\ stats.LEFT = 7
         /\ stats.OUTER = 8
         /\ stats.ADDITIVE = 8
    /\ (Joined /\ joinType = "ADDITIVE") =>
         /\ \A c \in RecordsOfKey(<<"1", "0", "4">>) :
              Get(joinedData[c], <<"_", "J", "o", "i", "n", "_", "S", "t", "a", "t", "u", "s">>) = Str(<<"U", "n", "i", "q", "u", "e", " ", "t", "o", " ">> \o CustomersName)
         /\ \A c \in RecordsOfKey(<<"1", "0", "1">>) :
              Get(joinedData[c], <<"_", "J", "o", "i", "n", "_", "S", "t", "a", "t", "u", "s">>) = Str(<<"M", "a", "t", "c", "h", "e", "d", " ", "(", "A", "l", "l", " ", "F", "i", "l", "e", "s", ")">>)

\* the ADDITIVE join of the demo data has run: one record for 104, two for 101
DemoWitness ==
  /\ files = demoFiles /\ candidate = demoCandidate
  /\ Joined /\ joinType = "ADDITIVE"
  /\ stats # NoStats
  /\ Cardinality(RecordsOfKey(<<"1", "0", "4">>)) = 1
  /\ Cardinality(RecordsOfKey(<<"1", "0", "1">>)) = 2

\* counts(k)[i]: the rows of dataset i whose normalized key is k
RefCount(i, k) ==
  Cardinality({j \in 1..Len(files[i].data) : normalizeKey(KeyCell(i, j)) = k})

\* the union of the datasets' keys
RefKeys ==
  UNION {{normalizeKey(KeyCell(i, j)) : j \in 1..Len(files[i].data)} : i \in 1..Len(files)}
  \ {<<>>}

\* the product of f[i] for i in lo..hi
RECURSIVE Prod(_, _, _)
Prod(f, lo, hi) == IF lo > hi THEN 1 ELSE f[lo] * Prod(f, lo + 1, hi)

\* the sum of f[k] for k in S
RECURSIVE Sum(_, _)
Sum(f, S) ==
  IF S = {} THEN 0 ELSE LET k == CHOOSE k \in S : TRUE IN f[k] + Sum(f, S \ {k})

RefInner ==
  Sum([k \in RefKeys |-> Prod([i \in 1..Len(files) |-> RefCount(i, k)], 1, Len(files))],
      RefKeys)

RefOuter ==
  Sum([k \in RefKeys |->
         Prod([i \in 1..Len(files) |-> Max(RefCount(i, k), 1)], 1, Len(files))],
      RefKeys)

RefLeft ==
  LET leftKeys == {k \in RefKeys : RefCount(1, k) > 0}
  IN Sum([k \in leftKeys |->
            RefCount(1, k)
            * Prod([i \in 1..Len(files) |-> Max(RefCount(i, k), 1)], 2, Len(files))],
         leftKeys)

\* C3: INNER is the sum over the keys of the product of the per-dataset
\* counts, OUTER and ADDITIVE the sum of the product of max(count, 1), and
\* LEFT the sum, over the keys dataset 0 has, of its count times the
\* product of max(count, 1) over the other datasets.
StatsFormula ==
  pc # "mounted" =>
    LET s == calculateJoinStats(files, candidate)
    IN /\ s.INNER = RefInner
       /\ s.OUTER = RefOuter
       /\ s.ADDITIVE = RefOuter
       /\ s.LEFT = RefLeft
       /\ stats # NoStats => stats = s

\* the estimates are computed for keys with counts above 1 and counts 0
StatsWitness ==
  /\ stats # NoStats
  /\ Len(files) = 3
  /\ \E k \in RefKeys : RefCount(1, k) = 2 /\ RefCount(2, k) = 0 /\ RefCount(3, k) = 2
  /\ \E k \in RefKeys : RefCount(1, k) = 0
  /\ stats.INNER < stats.LEFT /\ stats.LEFT < stats.OUTER


\* null, missing, the empty string or a whitespace-only string
BlankCell(v) ==
  \/ v.t \in {"null", "undef"}
  \/ v.t = "str" /\ \A i \in 1..Len(v.s) : v.s[i] \in WhiteSpace

\* the rows with a blank key cell in a file the candidate maps
BlankRows(i) ==
  IF NoKeyCol(getKeyColumnForFile(files[i], candidate)) THEN {}
  ELSE {j \in 1..Len(files[i].data) : BlankCell(KeyCell(i, j))}

\* the sum of the values of a Map
MapTotal(m) == Sum([i \in 1..Len(m) |-> m[i][2]], 1..Len(m))

\* C4: under every join type no combination a record is built from holds a
\* row whose key cell is null, missing, empty or whitespace; such a row is
\* in no key group and in no key count.
BlankKeysExcluded ==
  /\ Joined =>
       LET cs == joinCombinations(files, candidate, joinType)
       IN /\ Len(cs) = Len(joinedData)
          /\ \A c \in 1..Len(cs) : \A i \in 1..Len(files) :
               cs[c].combo[i] \notin BlankRows(i)
  /\ pc # "mounted" =>
       \A i \in 1..Len(files) :
         /\ \A g \in Range(fileDataMap(files[i], candidate)) :
              Range(g[2]) \cap BlankRows(i) = {}
         /\ NoKeyCol(getKeyColumnForFile(files[i], candidate))
            \/ MapTotal(getKeyCountsFromFile(files[i], candidate))
                 = Len(files[i].data) - Cardinality(BlankRows(i))

\* a join has returned records for files that hold rows with blank keys
BlankKeysWitness ==
  /\ Joined
  /\ joinType = "OUTER"
  /\ Len(joinedData) > 0
  /\ \E i \in 1..Len(files) : Cardinality(BlankRows(i)) = 2 /\ Len(files[i].data) = 2
  /\ \E i \in 1..Len(files) : Len(files[i].data) > Cardinality(BlankRows(i))

\* the columns a row of file i gives to a record: all but the key column
NonKeyColumns(i, j) ==
  LET keyCol == getKeyColumnForFile(files[i], candidate)
  IN {col \in Range(Keys(files[i].data[j])) : keyCol.t = "undef" \/ col # keyCol.s}

DistinctNames == \A i, j \in 1..Len(files) : i # j => files[i].name # files[j].name

\* C5: when the datasets have distinct names, the output columns of two
\* datasets are distinct, so no value written for one dataset's column is
\* overwritten by another dataset's column: every record holds, for every
\* row combined in it and every non-key column of that row, the row's value
\* under the renamed column.  (That no renamed column overwrites the join
\* key is the second conjunct of KeyOfRecord.)
ColumnIsolation ==
  (Joined /\ DistinctNames) =>
    LET cs == joinCombinations(files, candidate, joinType)
    IN \A c \in 1..Len(cs) : \A i \in 1..Len(files) :
         cs[c].combo[i] # 0 =>
           \A col \in NonKeyColumns(i, cs[c].combo[i]) :
             Get(joinedData[c], newColName(files[i].name, col))
               = Get(files[i].data[cs[c].combo[i]], col)

\* the records of OUTER, each with the combination it is built from
OuterRecords ==
  LET cs == joinCombinations(files, candidate, "OUTER")
  IN [c \in 1..Len(cs) |->
        [combo |-> cs[c].combo,
         record |-> joinedRow(files, candidate, "OUTER", cs[c].key, cs[c].combo)]]

RecordsOf(rs) == [c \in 1..Len(rs) |-> rs[c].record]

\* C6: INNER returns the OUTER records whose combination holds no null
\* placeholder and LEFT the OUTER records whose dataset-0 position is not a
\* placeholder, in the OUTER order.
FilterAfterExpansion ==
  /\ (Joined /\ joinType = "INNER") =>
       joinedData
         = RecordsOf(SelectSeq(OuterRecords,
                               LAMBDA r : \A i \in 1..Len(r.combo) : r.combo[i] # 0))
  /\ (Joined /\ joinType = "LEFT") =>
       joinedData = RecordsOf(SelectSeq(OuterRecords, LAMBDA r : r.combo[1] # 0))
  /\ (Joined /\ joinType = "OUTER") => joinedData = RecordsOf(OuterRecords)

\* a LEFT join that drops some OUTER records and keeps records with
\* placeholders
FilterWitness ==
  /\ Joined
  /\ joinType = "LEFT"
  /\ Len(joinedData) > 0
  /\ Len(joinedData) < Len(OuterRecords)
  /\ \E c \in 1..Len(OuterRecords) :
       OuterRecords[c].combo[1] # 0 /\ 0 \in Range(OuterRecords[c].combo)

\* the place of row j of file i when the files are scanned in order
ScanPos(i, j) == Sum([f \in 1..(i - 1) |-> Len(files[f].data)], 1..(i - 1)) + j

\* the place where key k is first encountered
FirstSeen(k) ==
  LET seen == UNION {{ScanPos(i, j) : j \in {r \in 1..Len(files[i].data) :
                                              normalizeKey(KeyCell(i, r)) = k}} :
                     i \in 1..Len(files)}
  IN CHOOSE p \in seen : \A q \in seen : p <= q

\* combination a comes before combination b with dataset 0 varying slowest
RECURSIVE LexLess(_, _)
LexLess(a, b) ==
  /\ a # <<>>
  /\ \/ Head(a) < Head(b)
     \/ Head(a) = Head(b) /\ LexLess(Tail(a), Tail(b))

\* C7: the records are ordered by the place their key is first met when
\* the datasets are scanned in order, row by row, and within a key by the
\* rows combined, dataset 0 varying slowest and the last dataset fastest,
\* every dataset in row order.
OutputOrder ==
  Joined =>
    LET cs == joinCombinations(files, candidate, joinType)
    IN /\ Len(cs) = Len(joinedData)
       /\ \A p, q \in 1..Len(cs) :
            p < q =>
              \/ FirstSeen(cs[p].key) < FirstSeen(cs[q].key)
              \/ cs[p].key = cs[q].key /\ LexLess(cs[p].combo, cs[q].combo)

\* two keys, one of them with two rows in each of two datasets
OrderWitness ==
  /\ Joined
  /\ Len(joinedData) >= 5
  /\ Cardinality(RefKeys) >= 2
  /\ \E k \in RefKeys : RefCount(1, k) = 2 /\ RefCount(2, k) = 2

\* C8: the rows combined in a record have the same normalized key, and the
\* record holds exactly that key under candidate.keyName.
KeyOfRecord ==
  Joined =>
    LET cs == joinCombinations(files, candidate, joinType)
    IN \A c \in 1..Len(cs) :
         /\ \A i \in 1..Len(files) :
              cs[c].combo[i] # 0 => normalizeKey(KeyCell(i, cs[c].combo[i])) = cs[c].key
         /\ Get(joinedData[c], candidate.keyName) = Str(cs[c].key)

\* C9: every value of every record joinDatasets returns is a string, a
\* number, a boolean or null.
JoinedRecordsScalar ==
  Joined =>
    \A c \in 1..Len(joinedData) : \A p \in Range(joinedData[c]) : IsScalar(p[2])

AllScalar(rows) == \A r \in Range(rows) : \A p \in Range(r) : IsScalar(p[2])

\* C10: every cell of a file made by createJoinedFile and every cell handed
\* to the sheet writer by downloadCSV is a scalar, for rows of joinDatasets
\* and rows of generateSemanticMerge alike.
OutputsScalar ==
  /\ saved # NoFile => AllScalar(saved.data) /\ AllScalar(saved.previewData)
  /\ sheet # NoSheet => AllScalar(sheet.rows)

\* a join whose records hold an array or an object has been saved
OutputsWitness ==
  /\ Joined
  /\ action = "save"
  /\ saved # NoFile
  /\ ~AllScalar(joinedData)
  /\ \E r \in Range(joinedData) : \E p \in Range(r) : p[2].t = "obj"

\* what the sanitizer makes of a cell, blank standing for null or missing:
\* an array gives its elements as strings joined with " | ", an object or
\* array element as its JSON text and a primitive element as String() of it
RefSanitize(v, blank) ==
  CASE v.t \in {"null", "undef"} -> blank
    [] v.t = "arr" ->
         Str(Join([i \in 1..Len(v.a) |->
                     IF v.a[i].t \in {"arr", "obj"} THEN JsonStringify(v.a[i])
                     ELSE StringOf(v.a[i])],
                  <<" ", "|", " ">>))
    [] v.t = "obj" -> Str(JsonStringify(v))
    [] OTHER -> v

RefSanitizeRows(rows, blank) ==
  [c \in 1..Len(rows) |->
     [i \in 1..Len(rows[c]) |-> <<rows[c][i][1], RefSanitize(rows[c][i][2], blank)>>]]

Contributing(combo) == {i \in 1..Len(combo) : combo[i] # 0}

\* the _Join_Status of a combination, as the three cases of the rule
RefStatus(combo) ==
  LET found == Contributing(combo)
  IN IF Cardinality(found) = Len(files) THEN <<"M", "a", "t", "c", "h", "e", "d", " ", "(", "A", "l", "l", " ", "F", "i", "l", "e", "s", ")">>
     ELSE IF Cardinality(found) = 1
          THEN <<"U", "n", "i", "q", "u", "e", " ", "t", "o", " ">> \o files[CHOOSE i \in found : TRUE].name
          ELSE <<"P", "a", "r", "t", "i", "a", "l", " ", "M", "a", "t", "c", "h", " ", "(", "F", "o", "u", "n", "d", " ", "i", "n", " ">> \o NumToString(Cardinality(found))
               \o <<"/">> \o NumToString(Len(files)) \o <<")">>

\* C12: under ADDITIVE every record's _Join_Status is "Matched (All Files)"
\* when no dataset is missing from its combination, else "Unique to <file
\* name>" when one dataset contributed, else "Partial Match (Found in f/n)";
\* under INNER, OUTER and LEFT no _Join_Status column is added (a record
\* has such a column only as its join key column).
JoinStatusRule ==
  Joined =>
    LET cs == joinCombinations(files, candidate, joinType)
    IN /\ Len(cs) = Len(joinedData)
       /\ \A c \in 1..Len(cs) :
            IF joinType = "ADDITIVE"
            THEN Get(joinedData[c], <<"_", "J", "o", "i", "n", "_", "S", "t", "a", "t", "u", "s">>) = Str(RefStatus(cs[c].combo))
            ELSE \/ ~Has(joinedData[c], <<"_", "J", "o", "i", "n", "_", "S", "t", "a", "t", "u", "s">>)
                 \/ candidate.keyName = <<"_", "J", "o", "i", "n", "_", "S", "t", "a", "t", "u", "s">>

\* an ADDITIVE join of three datasets with a partial match and a unique key
JoinStatusWitness ==
  /\ Joined
  /\ joinType = "ADDITIVE"
  /\ Len(files) = 3
  /\ \E c \in 1..Len(joinedData) :
       Get(joinedData[c], <<"_", "J", "o", "i", "n", "_", "S", "t", "a", "t", "u", "s">>) = Str(<<"P", "a", "r", "t", "i", "a", "l", " ", "M", "a", "t", "c", "h", " ", "(", "F", "o", "u", "n", "d", " ", "i", "n", " ", "2", "/", "3", ")">>)
  /\ \E c \in 1..Len(joinedData) :
       Get(joinedData[c], <<"_", "J", "o", "i", "n", "_", "S", "t", "a", "t", "u", "s">>) = Str(<<"U", "n", "i", "q", "u", "e", " ", "t", "o", " ", "f", "3", ".", "c", "s", "v">>)

\* C13: under ADDITIVE, for every record and every dataset d of the join,
\* the record has a column _Found_In_<sanitized name of d> whose value is
\* "TRUE" if the record contains a row of d and "FALSE" otherwise (stated
\* for datasets with distinct names).
FoundInFlags ==
  (Joined /\ joinType = "ADDITIVE" /\ DistinctNames) =>
    LET cs == joinCombinations(files, candidate, joinType)
    IN \A c \in 1..Len(cs) : \A d \in 1..Len(files) :
         Get(joinedData[c], <<"_", "F", "o", "u", "n", "d", "_", "I", "n", "_">> \o cleanFileName(files[d].name))
           = IF d \in Contributing(cs[c].combo) THEN Str(<<"T", "R", "U", "E">>) ELSE Str(<<"F", "A", "L", "S", "E">>)

\* the datasets the candidate has no column mapping for
Unmapped ==
  {i \in 1..Len(files) :
     \A m \in Range(candidate.columnMappings) : m.fileName # files[i].name}

\* C14: a dataset the candidate has no column mapping for raises no error
\* and is missing for every key: it has no key group and no key count, no
\* record holds a row of it, the INNER result and count are empty and 0, and
\* so are the LEFT result and count when it is dataset 0.
UnmappedDataset ==
  /\ pc # "mounted" =>
       \A i \in Unmapped :
         /\ fileDataMap(files[i], candidate) = <<>>
         /\ getKeyCountsFromFile(files[i], candidate) = <<>>
         /\ stats # NoStats => /\ stats.INNER = 0
                               /\ i = 1 => stats.LEFT = 0
  /\ Joined =>
       /\ action = "save" => saved # NoFile
       /\ action = "download" => sheet # NoSheet
       /\ \A i \in Unmapped :
            /\ \A c \in Range(joinCombinations(files, candidate, joinType)) :
                 c.combo[i] = 0
            /\ joinType = "INNER" => joinedData = <<>>
            /\ (joinType = "LEFT" /\ i = 1) => joinedData = <<>>

\* a LEFT join whose dataset 0 has rows with keys but no mapping, while the
\* other datasets have keys
UnmappedWitness ==
  /\ Joined
  /\ joinType = "LEFT"
  /\ Len(files) = 3
  /\ Unmapped = {1}
  /\ \E j \in 1..Len(files[1].data) : ~BlankCell(Get(files[1].data[j], <<"k">>))
  /\ stats # NoStats
  /\ stats.OUTER > 0
  /\ joinedData = <<>>

\* the columns of the records after the first that the first record lacks
LaterColumns ==
  IF Len(joinedData) = 0 THEN {}
  ELSE UNION {Range(Keys(joinedData[c])) : c \in 1..Len(joinedData)}
       \ Range(Keys(joinedData[1]))

\* C19: the headers of a file saved by createJoinedFile are the keys of the
\* first output record, in that record's order, and empty when there is no
\* record; a column that first appears in a later record is not a header,
\* and the table shows, for every record, the cells of the headers only.
HeadersFromFirstRecord ==
  saved # NoFile =>
    /\ saved.headers = IF Len(joinedData) = 0 THEN <<>> ELSE Keys(joinedData[1])
    /\ LaterColumns \cap Range(saved.headers) = {}
    /\ Len(previewTable(saved)) = Len(joinedData)
    /\ \A r \in 1..Len(joinedData) :
         /\ Len(previewTable(saved)[r]) = Len(saved.headers)
         /\ \A h \in 1..Len(saved.headers) :
              previewTable(saved)[r][h]
                = cellText(Get(saved.data[r], Keys(joinedData[1])[h]))

\* a saved OUTER join whose first key is missing from the second dataset:
\* the second record holds a value in a column that is no header
HeadersWitness ==
  /\ Joined
  /\ joinType = "OUTER"
  /\ saved # NoFile
  /\ Len(joinedData) >= 2
  /\ \E k \in LaterColumns : Get(saved.data[2], k).t = "str"
  /\ Len(previewTable(saved)[2]) < Len(saved.data[2])

\* C20: an ADDITIVE join and an OUTER join retain all data: every row of
\* every input file is in at least one record of the result (stated for
\* datasets the candidate maps).
RetainsAllData ==
  (Joined /\ joinType \in {"ADDITIVE", "OUTER"} /\ Unmapped = {}) =>
    LET cs == joinCombinations(files, candidate, joinType)
    IN /\ Len(cs) = Len(joinedData)
       /\ \A i \in 1..Len(files) : \A j \in 1..Len(files[i].data) :
            \E c \in 1..Len(cs) : cs[c].combo[i] = j

\* text that is not JSON, JSON that is not an array, or a non-empty array
\* with no object among its elements
Malformed(resp) ==
  \/ resp.kind = "notjson"
  \/ resp.kind = "json" /\ resp.value.t # "arr"
  \/ /\ resp.kind = "json" /\ resp.value.t = "arr" /\ resp.value.a # <<>>
     /\ \A e \in Range(resp.value.a) : e.t \notin {"obj", "arr"}

\* C16: on a malformed answer of the external service (text that is not
\* JSON, JSON that is not an array, an array whose elements are not
\* objects) generateSemanticMerge raises no error and returns zero rows.
MalformedGivesNoRows ==
  (pc = "ready" /\ joinType = "AI_SEMANTIC" /\ Malformed(response)) =>
    /\ generateSemanticMerge(response).ok
    /\ joinedData = <<>>
    /\ action = "save" => saved # NoFile /\ saved.rowCount = 0

\* a failure of the external service: no API key, a rejected request or an
\* empty response
ServiceFailure(resp) == resp.kind \in {"nokey", "reject", "empty"}

\* a call has returned a non-empty string
ReturnsText(outcome) ==
  outcome.ok /\ outcome.value.t = "str" /\ outcome.value.s # <<>>

\* what the calls return when the service fails
FailureOutcomes ==
  (result # NoResult /\ ServiceFailure(response)) =>
    CASE result.service = "generateMergePlan" ->
           /\ ReturnsText(result.outcome)
           /\ result.outcome.value.s
                \in {<<"C", "o", "u", "l", "d", " ", "n", "o", "t", " ", "g", "e", "n", "e", "r", "a", "t", "e", " ", "p", "l", "a", "n", ".">>,
                     <<"E", "r", "r", "o", "r", " ", "g", "e", "n", "e", "r", "a", "t", "i", "n", "g", " ", "p", "l", "a", "n", ".", " ", "P", "l", "e", "a", "s", "e", " ", "w", "r", "i", "t", "e", " ", "y", "o", "u", "r", " ", "i", "n", "s", "t", "r", "u", "c", "t", "i", "o", "n", "s", " ", "m", "a", "n", "u", "a", "l", "l", "y", ".">>}
      [] result.service = "chatWithDataset" ->
           /\ ReturnsText(result.outcome)
           /\ result.outcome.value.s
                \in {<<"I", " ", "c", "o", "u", "l", "d", "n", "'", "t", " ", "g", "e", "n", "e", "r", "a", "t", "e", " ", "a", " ", "r", "e", "s", "p", "o", "n", "s", "e", ".">>,
                     <<"S", "o", "r", "r", "y", ",", " ", "I", " ", "e", "n", "c", "o", "u", "n", "t", "e", "r", "e", "d", " ", "a", "n", " ", "e", "r", "r", "o", "r", " ", "w", "h", "i", "l", "e", " ", "a", "n", "a", "l", "y", "z", "i", "n", "g", " ", "t", "h", "e", " ", "d", "a", "t", "a", ".">>}
      [] result.service = "analyzeFilesForJoin" -> ~result.outcome.ok
      [] result.service = "generateSemanticMerge" ->
           response.kind \in {"nokey", "reject"} => ~result.outcome.ok

\* C15: when the external service fails (no API key, rejected request,
\* empty response) generateMergePlan and chatWithDataset do not reject and
\* return a non-empty fallback string, analyzeFilesForJoin rejects and
\* generateSemanticMerge rejects on a failed request; a call changes
\* nothing of its caller's state (the files, the candidate and the state of
\* the join).
ServiceFailures == []FailureOutcomes /\ [][UNCHANGED joinVars]_vars

\* generateMergePlan has returned its fallback after a rejected request
ServiceFailuresWitness ==
  /\ result # NoResult
  /\ result.service = "generateMergePlan"
  /\ response.kind = "reject"
  /\ request # NoRequest
  /\ result.outcome
       = Resolved(Str(<<"E", "r", "r", "o", "r", " ", "g", "e", "n", "e", "r", "a", "t", "i", "n", "g", " ", "p", "l", "a", "n", ".", " ", "P", "l", "e", "a", "s", "e", " ", "w", "r", "i", "t", "e", " ", "y", "o", "u", "r", " ", "i", "n", "s", "t", "r", "u", "c", "t", "i", "o", "n", "s", " ", "m", "a", "n", "u", "a", "l", "l", "y", ".">>))

\* the datasets of a request: the file name, the rows sent and whether the
\* rows are sent whole or cut down to the headers
RequestDatasets(req) ==
  IF req.service = "generateSemanticMerge"
  THEN [i \in 1..Len(req.samples) |->
          [fileName |-> req.samples[i].fileName, rows |-> req.samples[i].data,
           whole |-> TRUE]]
  ELSE [i \in 1..Len(req.summaries) |->
          [fileName |-> req.summaries[i].fileName, rows |-> req.summaries[i].sampleData,
           whole |-> FALSE]]

FileNamed(name) == files[CHOOSE i \in 1..Len(files) : files[i].name = name]

\* the cells of row j of a file that a request may hold
RowPart(file, j, whole) ==
  {p \in Range(file.data[j]) :
     p[2].t # "undef" /\ (whole \/ p[1] \in Range(file.headers))}

\* C17: a key discovery request holds, per file, only the file name, the
\* headers and at most the first three rows; a semantic merge request holds
\* at most the first 50 rows of each file; no request holds a row beyond
\* these prefixes, whatever the size of the datasets.
RequestsWithinSamples ==
  request # NoRequest =>
    /\ \A d \in Range(RequestDatasets(request)) :
         LET file == FileNamed(d.fileName)
             limit == IF d.whole THEN MergeRows ELSE SummaryRows
         IN /\ Len(d.rows) <= limit
            /\ Len(d.rows) <= Len(file.data)
            /\ \A r \in 1..Len(d.rows) : Range(d.rows[r]) = RowPart(file, r, d.whole)
            /\ \A j \in (limit + 1)..Len(file.data) :
                 \A r \in 1..Len(d.rows) : Range(d.rows[r]) # RowPart(file, j, d.whole)
    /\ request.service = "analyzeFilesForJoin" =>
         /\ DOMAIN request = {"service", "count", "summaries"}
         /\ request.count = Len(files)
         /\ Len(request.summaries) = Len(files)
         /\ \A i \in 1..Len(files) :
              /\ DOMAIN request.summaries[i] = {"fileName", "headers", "sampleData"}
              /\ request.summaries[i].fileName = files[i].name
              /\ request.summaries[i].headers = files[i].headers
    /\ request.service = "generateSemanticMerge" =>
         /\ Len(request.samples) = Len(files)
         /\ \A i \in 1..Len(files) : request.samples[i].fileName = files[i].name

\* a semantic merge request for a file of more than 50 rows and a file with a
\* column that is no header
RequestsWitness ==
  /\ request # NoRequest
  /\ request.service = "generateSemanticMerge"
  /\ Len(files) = 2
  /\ \E d \in Range(RequestDatasets(request)) :
       Len(FileNamed(d.fileName).data) > MergeRows /\ Len(d.rows) = MergeRows
  /\ \E d \in Range(RequestDatasets(request)) :
       \E r \in 1..Len(d.rows) : Has(d.rows[r], <<"n", "o", "t", "e">>)

-----------------------------------------------------------------------------
\* C18: after any sequence of workspace operations (upload, demo load,
\* saving a joined file, removing a file, import, clearing), no two files
\* of the workspace have the same name
UniqueNames ==
  \A i, j \in 1..Len(workspace) :
    i # j => workspace[i].file.name # workspace[j].file.name

-----------------------------------------------------------------------------
\* the rows of dataset i whose key is not blank
KeyedRows(i) == {j \in 1..Len(files[i].data) : ~BlankCell(KeyCell(i, j))}

\* C23: the estimates of calculateJoinStats satisfy
\* 0 <= INNER <= LEFT <= OUTER and OUTER = ADDITIVE, and with a single
\* dataset all four equal the number of its rows with a non-blank key
StatsOrdering ==
  stats # NoStats =>
    /\ 0 <= stats.INNER
    /\ stats.INNER <= stats.LEFT
    /\ stats.LEFT <= stats.OUTER
    /\ stats.OUTER = stats.ADDITIVE
    /\ Len(files) = 1 =>
         \A T \in {"INNER", "LEFT", "OUTER", "ADDITIVE"} :
           stats[T] = Cardinality(KeyedRows(1))

\* the estimates of a single dataset with a keyed row and one with a blank key
StatsOrderingWitness ==
  /\ stats # NoStats
  /\ Len(files) = 1
  /\ KeyedRows(1) # {}
  /\ KeyedRows(1) # 1..Len(files[1].data)

-----------------------------------------------------------------------------
IsPrefix(p, s) == Len(p) <= Len(s) /\ \A i \in 1..Len(p) : s[i] = p[i]

\* a record without its _Join_Status and _Found_In_* columns
StripFlags(record) ==
  SelectSeq(record, LAMBDA c : c[1] # <<"_", "J", "o", "i", "n", "_", "S", "t", "a", "t", "u", "s">> /\ ~IsPrefix(<<"_", "F", "o", "u", "n", "d", "_", "I", "n", "_">>, c[1]))

\* C24: joinDatasets with ADDITIVE returns as many records, in the same
\* order, as with OUTER, and each ADDITIVE record without its _Join_Status
\* and _Found_In_* columns equals the OUTER record at its position
AdditiveIsOuter ==
  (DistinctNames /\ pc = "ready" /\ joinType = "ADDITIVE") =>
    LET outer == joinDatasets(files, candidate, "OUTER")
    IN /\ Len(joinedData) = Len(outer)
       /\ \A i \in 1..Len(joinedData) : StripFlags(joinedData[i]) = outer[i]

-----------------------------------------------------------------------------
\* the candidate lists the service may return for the calls not settled yet
ReturnedCandidates ==
  UNION {{LET results == analyzeFilesForJoin(resp)
          IN [i \in 1..Len(results.value.a) |-> asCandidate(results.value.a[i])] :
            resp \in {r \in DiscoveryAnswers(pending[k]) : analyzeFilesForJoin(r).ok}} :
         k \in 1..Len(pending)}

\* a step in which a discovery call starts, and one in which a call settles
AnalyzeStarts == Len(pending') > Len(pending)

AnalyzeSettled == Len(pending') < Len(pending)

\* C21: handleAnalyze starts a call only with two files or more and then
\* sets ANALYZING with the error and the candidates cleared; when the call
\* settles the status is COMPLETED with the returned candidates stored, or
\* ERROR with a message stored and no candidates, and never ANALYZING
AnalyzeBehaviour ==
  [][/\ AnalyzeStarts =>
          /\ Len(workspace) >= 2
          /\ analysisStatus' = "ANALYZING"
          /\ error' = Null
          /\ candidates' = <<>>
     /\ AnalyzeSettled =>
          \/ analysisStatus' = "COMPLETED" /\ candidates' \in ReturnedCandidates
          \/ analysisStatus' = "ERROR" /\ error' # Null /\ candidates' = <<>>]_vars

\* every column mapping of every candidate names a file of the workspace
MappingsNameFiles(cs, entries) ==
  \A i \in 1..Len(cs) : \A j \in 1..Len(cs[i].columnMappings) :
    cs[i].columnMappings[j].fileName \in NamesOf(entries)

\* a step of removeFile that takes a file out of the workspace
FileRemoved ==
  /\ Len(workspace') < Len(workspace)
  /\ \E i \in 1..Len(workspace) :
       workspace' = SelectSeq(workspace, LAMBDA f : f.id # workspace[i].id)

\* C22: after removeFile no candidate still offered has a column mapping
\* that names a file no longer in the workspace, whatever the size of
\* the workspace
RemovalInvalidates ==
  [][(FileRemoved /\ MappingsNameFiles(candidates, workspace))
       => MappingsNameFiles(candidates', workspace')]_vars

\* C25: a non-empty candidate list implies that the workspace holds at
\* least two files, also when a response arrives after the workspace was
\* cleared or imported
CandidatesNeedFiles == Len(candidates) > 0 => Len(workspace) >= 2

\* C26: at most one key-discovery request is outstanding at any time
OneOutstanding == Len(pending) <= 1

-----------------------------------------------------------------------------
\* the plan in the editor is the plan drafted for a candidate not selected
StalePlan ==
  \E i \in 1..Len(candidates) :
    i # selectedCandidateIndex + 1 /\ aiPlan = PlanOf(candidates[i].keyName)

\* C27: a non-empty plan shown with no plan generation in progress was
\* generated for the selected candidate, never for a candidate selected
\* before
PlanMatchesSelection ==
  (selectedJoinType = "AI_SEMANTIC" /\ aiPlan # <<>> /\ ~isPlanning) => ~StalePlan

-----------------------------------------------------------------------------
\* the field k of an aiContext: <<value>>, or <<>> when it has none
Field(ctx, k) == IF k \in DOMAIN ctx THEN <<ctx[k]>> ELSE <<>>

\* a step in which a chat call settles
ChatSettled == Len(chatCalls') < Len(chatCalls)

\* in a step, the file keeps its description and column notes, and its
\* history is kept or gets one message of the model at its end
ContextKept(old, new) ==
  /\ Field(aiContextOf(new), "userDescription") = Field(aiContextOf(old), "userDescription")
  /\ Field(aiContextOf(new), "columnMeanings") = Field(aiContextOf(old), "columnMeanings")
  /\ \/ chatHistoryOf(new) = chatHistoryOf(old)
     \/ /\ Len(chatHistoryOf(new)) = Len(chatHistoryOf(old)) + 1
        /\ SubSeq(chatHistoryOf(new), 1, Len(chatHistoryOf(old))) = chatHistoryOf(old)
        /\ chatHistoryOf(new)[Len(chatHistoryOf(new))].role = "model"

\* C28: when the response of a chat request arrives, the handler appends
\* the model's message to the current state of the file: a history cleared
\* or a description and column notes saved while the request was pending
\* are still in effect
ReplyKeepsChanges ==
  [][ChatSettled =>
       \A i \in 1..Len(workspace) : ContextKept(workspace[i].file, workspace'[i].file)]_vars

====
